---- MODULE Spec2Model ----
(***************************************************************************)
(* Article enrichment: the renderer (content_enrichment/renderer.py), the  *)
(* structural validator (content_enrichment/qa.py), the deterministic      *)
(* fallback selector (ai/llm_select.py), the Selection types               *)
(* (shared/types.py) and the retry loop of enrich (pipeline.py).           *)
(*                                                                         *)
(* Text is modelled as TLA+ strings, character by character.  Indices and  *)
(* slices keep Python's 0-based, end-exclusive convention; a search result *)
(* of -1 is Python's "not found".  Characters that cannot be written in a  *)
(* string here have ASCII stand-ins that the modelled inputs use for       *)
(* nothing else: PlayCh for U+25B6 (the video marker), UHyphenCh for the   *)
(* Unicode hyphens U+2010..U+2014/U+2212, BacktickCh for the backtick;     *)
(* None stands for Python's None where a string is optional.               *)
(***************************************************************************)
EXTENDS Integers, Sequences, FiniteSets, TLC

VARIABLES
    \* ---- one call of render_enriched_markdown, step by step
    r_pc,        \* "hero" | "context" | "link" | "post" | "done" | "raised" | "off"
    r_article,   \* original_markdown
    r_sel,       \* the Selection being rendered
    r_lines,     \* the renderer's `lines` list
    r_used,      \* used_by_section: section key -> set of paragraph indices
    r_k,         \* index (0-based) of the next link to insert / to post-check
    r_log,       \* history, per link: the paragraph index insert_link chose (-1:
                 \* none), the cascade step, `lines` and used_by_section before, `lines` after
    \* ---- one run of enrich (pipeline.py)
    e_pc,            \* "select" | "render" | "qa" | "finish" | "done" | "failed" | "off"
    e_article_text,  \* the article
    e_candidates,    \* the candidate buckets after shortlisting and filtering
    e_offline,       \* the offline argument of the Selector call
    e_qa_mode,       \* "fallback" | "auto" | "ai"
    e_max_attempts,  \* RETRY_MAX_ATTEMPTS
    e_require_kw,    \* ANCHOR_REQUIRE_KEYWORDS
    e_attempt,       \* the loop variable `attempt` (0 before the loop)
    e_selection,     \* `selection`
    e_ok,            \* `ok` of pre_validate
    e_enriched,      \* `enriched`
    e_attempts,      \* `attempts`: the rejected Selections
    e_avoid_urls,    \* `avoid_urls`
    e_last_reasons,  \* `last_reasons`
    e_final_enriched,\* `final_enriched`
    e_accepted,      \* `accepted`
    e_error,         \* the exception that ended the run ("" if none)
    e_written,       \* the texts written to the output path, in order
    e_calls,         \* history: the arguments and result of each Selector call
    e_outcomes,      \* history: how each attempt's quality check ended
    \* ---- one call of one of the pure functions of the pipeline
    p_pc,            \* "call" | "returned" | "off"
    p_fn,            \* the function called
    p_args,          \* its arguments
    p_result,        \* what it returned ([raised, ...]), once p_pc = "returned"
    \* ---- one call of filter_candidates_by_availability (asset_validation.py)
    f_pc,            \* "tasks" | "probing" | "done" | "off"
    f_candidates,    \* the candidates argument: [hero, context, links]
    f_reply,         \* what the server of each URL does with a request
    f_probe,         \* one entry per probe task, in creation order
    f_out            \* the dict returned, once f_pc = "done"

render_vars == <<r_pc, r_article, r_sel, r_lines, r_used, r_k, r_log>>

enrich_vars == <<e_pc, e_article_text, e_candidates, e_offline, e_qa_mode, e_max_attempts,
                 e_require_kw, e_attempt, e_selection, e_ok, e_enriched, e_attempts,
                 e_avoid_urls, e_last_reasons, e_final_enriched, e_accepted, e_error,
                 e_written, e_calls, e_outcomes>>

call_vars == <<p_pc, p_fn, p_args, p_result>>

filter_vars == <<f_pc, f_candidates, f_reply, f_probe, f_out>>

vars == <<render_vars, enrich_vars, call_vars, filter_vars>>

-----------------------------------------------------------------------------
(* Characters and Python's str methods                                     *)

None == "<None>"
PlayCh == ">"
UHyphenCh == "~"
BacktickCh == "^"
EmDashCh == "="
EmphasisChars == {"*", "_", BacktickCh}

Min(S) == CHOOSE x \in S : \A y \in S : x <= y
Max(S) == CHOOSE x \in S : \A y \in S : x >= y

\* s[i] for 0 <= i < len(s)
At(s, i) == SubSeq(s, i + 1, i + 1)
\* s[a:b] for 0 <= a, b (clamped as Python clamps a slice)
Slice(s, a, b) == SubSeq(s, a + 1, IF b > Len(s) THEN Len(s) ELSE b)
\* s[a:]
From(s, a) == SubSeq(s, a + 1, Len(s))

LowerLetters == "abcdefghijklmnopqrstuvwxyz"
UpperLetters == "ABCDEFGHIJKLMNOPQRSTUVWXYZ"
DigitChars == "0123456789"
CharsOf(s) == {At(s, i) : i \in 0..(Len(s) - 1)}
LowerSet == CharsOf(LowerLetters)
UpperSet == CharsOf(UpperLetters)
DigitSet == CharsOf(DigitChars)
ToLower == [c \in UpperSet |->
              At(LowerLetters, CHOOSE i \in 0..25 : At(UpperLetters, i) = c)]

isdigit(c) == c \in DigitSet
isalpha(c) == c \in LowerSet \cup UpperSet
isalnum(c) == isalpha(c) \/ isdigit(c)
isspace(c) == c \in {" ", "\t", "\n"}
lower_ch(c) == IF c \in UpperSet THEN ToLower[c] ELSE c

RECURSIVE lower(_)
lower(s) == IF s = "" THEN "" ELSE lower_ch(At(s, 0)) \o lower(From(s, 1))

startswith(s, p) == Len(p) <= Len(s) /\ SubSeq(s, 1, Len(p)) = p
endswith(s, p) == Len(p) <= Len(s) /\ SubSeq(s, Len(s) - Len(p) + 1, Len(s)) = p

\* s.find(sub): the first 0-based index, -1 when absent
find(s, sub) ==
    LET hits == {i \in 0..(Len(s) - Len(sub)) : Slice(s, i, i + Len(sub)) = sub}
    IN  IF hits = {} THEN -1 ELSE Min(hits)
\* sub in s
contains(s, sub) == find(s, sub) >= 0

lstrip(s) ==
    LET keep == {i \in 0..(Len(s) - 1) : ~isspace(At(s, i))}
    IN  IF keep = {} THEN "" ELSE From(s, Min(keep))
rstrip(s) ==
    LET keep == {i \in 0..(Len(s) - 1) : ~isspace(At(s, i))}
    IN  IF keep = {} THEN "" ELSE Slice(s, 0, Max(keep) + 1)
strip(s) == lstrip(rstrip(s))

\* str.splitlines() on "\n"
RECURSIVE splitlines(_)
splitlines(s) ==
    IF s = "" THEN <<>>
    ELSE LET p == find(s, "\n")
         IN  IF p < 0 THEN <<s>>
             ELSE <<Slice(s, 0, p)>> \o splitlines(From(s, p + 1))

\* sep.join(seq)
RECURSIVE join(_, _)
join(sep, seq) ==
    IF Len(seq) = 0 THEN ""
    ELSE IF Len(seq) = 1 THEN seq[1]
    ELSE seq[1] \o sep \o join(sep, Tail(seq))

\* lines[a:b] and lines[a:] of a list
LSlice(l, a, b) == SubSeq(l, a + 1, IF b > Len(l) THEN Len(l) ELSE b)
LFrom(l, a) == SubSeq(l, a + 1, Len(l))

-----------------------------------------------------------------------------
(* renderer.py: headings, media blocks                                     *)

NoIndex == -1           \* Place.paragraph_index / sentence_index is None

count_hashes(line) ==
    LET other == {i \in 0..(Len(line) - 1) : At(line, i) # "#"}
    IN  IF other = {} THEN Len(line) ELSE Min(other)

\* SECTION_RE.match(line) is not None
is_heading(line) ==
    LET n == count_hashes(line)
    IN  n >= 1 /\ n <= 6 /\ n < Len(line) /\ isspace(At(line, n))

\* SECTION_RE.match(line).group(2)
heading_group2(line) == lstrip(From(line, count_hashes(line)))

find_h1_index(lines) ==
    LET hits == {i \in 0..(Len(lines) - 1) : startswith(lines[i + 1], "# ")}
    IN  IF hits = {} THEN -1 ELSE Min(hits)

find_heading_index(lines, heading_text) ==
    IF heading_text = None \/ heading_text = "" THEN -1
    ELSE LET target == lower(strip(heading_text))
             exact == {i \in 0..(Len(lines) - 1) :
                          /\ is_heading(lines[i + 1])
                          /\ lower(strip(heading_group2(lines[i + 1]))) = target}
             fuzzy == {i \in 0..(Len(lines) - 1) :
                          /\ is_heading(lines[i + 1])
                          /\ contains(lower(strip(heading_group2(lines[i + 1]))), target)}
         IN  IF exact # {} THEN Min(exact)
             ELSE IF fuzzy # {} THEN Min(fuzzy)
             ELSE -1

insert_after(lines, index, block) ==
    IF index < 0 THEN <<block>> \o lines
    ELSE LSlice(lines, 0, index + 1) \o <<"", block, "">> \o LFrom(lines, index + 1)

make_image_markdown(alt, url) == "![" \o alt \o "](" \o url \o ")"

make_video_block(title_or_alt, url) ==
    LET t0 == IF strip(title_or_alt) = "" THEN "Watch" ELSE strip(title_or_alt)
        text == IF endswith(t0, ".") THEN strip(Slice(t0, 0, Len(t0) - 1)) ELSE t0
    IN  PlayCh \o " [" \o text \o "](" \o url \o ")"

is_media_line(line) ==
    LET s == strip(line)
    IN  startswith(s, PlayCh \o " ") \/ startswith(s, "![")

section_bounds(lines, heading_text) ==
    LET hidx == find_heading_index(lines, heading_text)
        nxt == {e \in (hidx + 1)..(Len(lines) - 1) : is_heading(lines[e + 1])}
    IN  IF hidx < 0 THEN <<Len(lines) - 1, Len(lines)>>
        ELSE <<hidx + 1, IF nxt = {} THEN Len(lines) ELSE Min(nxt)>>

\* re.match(r'^\d+\.\s', stripped)
numbered_prefix(s) ==
    LET nd == {i \in 0..(Len(s) - 1) : ~isdigit(At(s, i))}
        d == IF nd = {} THEN Len(s) ELSE Min(nd)
    IN  d >= 1 /\ d + 1 < Len(s) /\ At(s, d) = "." /\ isspace(At(s, d + 1))

is_list_item(line) ==
    LET stripped == lstrip(line)
    IN  \/ startswith(stripped, "* ")
        \/ startswith(stripped, "- ")
        \/ startswith(stripped, "+ ")
        \/ numbered_prefix(stripped)

-----------------------------------------------------------------------------
(* renderer.py: paragraph segmentation                                     *)

RECURSIVE skip_separators(_, _, _)
skip_separators(lines, i, end) ==
    IF i < end /\ (strip(lines[i + 1]) = "" \/ is_media_line(lines[i + 1]))
    THEN skip_separators(lines, i + 1, end)
    ELSE i

RECURSIVE list_item_end(_, _, _)
list_item_end(lines, j, end) ==
    IF /\ j < end
       /\ strip(lines[j + 1]) # ""
       /\ ~is_media_line(lines[j + 1])
       /\ ~is_list_item(lines[j + 1])
       /\ startswith(lines[j + 1], "  ")
    THEN list_item_end(lines, j + 1, end)
    ELSE j

RECURSIVE prose_end(_, _, _)
prose_end(lines, j, end) ==
    IF /\ j < end
       /\ strip(lines[j + 1]) # ""
       /\ ~is_media_line(lines[j + 1])
       /\ ~is_list_item(lines[j + 1])
    THEN prose_end(lines, j + 1, end)
    ELSE j

\* the list of (first, last+1) line ranges
RECURSIVE paragraph_ranges(_, _, _)
paragraph_ranges(lines, start, end) ==
    LET i == skip_separators(lines, start, end)
    IN  IF i >= end THEN <<>>
        ELSE IF is_list_item(lines[i + 1])
        THEN LET j == list_item_end(lines, i + 1, end)
             IN  <<(<<i, j>>)>> \o paragraph_ranges(lines, j, end)
        ELSE LET j == prose_end(lines, i, end)
             IN  <<(<<i, j>>)>> \o paragraph_ranges(lines, j + 1, end)

\* " ".join(lines[pstart:pend])
paragraph_text(lines, range) == join(" ", LSlice(lines, range[1], range[2]))

-----------------------------------------------------------------------------
(* renderer.py: tokens, normalisation, sentences, paragraph score          *)

RECURSIVE alnum_end(_, _)
alnum_end(s, i) ==
    IF i < Len(s) /\ isalnum(At(s, i)) THEN alnum_end(s, i + 1) ELSE i

\* re.findall(r"[A-Za-z0-9]+(?:-[A-Za-z0-9]+)?", s), s already lower-cased
RECURSIVE findall_tokens(_, _)
findall_tokens(s, i) ==
    IF i >= Len(s) THEN <<>>
    ELSE IF ~isalnum(At(s, i)) THEN findall_tokens(s, i + 1)
    ELSE LET j == alnum_end(s, i)
             k == IF j + 1 < Len(s) /\ At(s, j) = "-" /\ isalnum(At(s, j + 1))
                  THEN alnum_end(s, j + 1) ELSE j
         IN  <<Slice(s, i, k)>> \o findall_tokens(s, k)

tokenize(s) == findall_tokens(lower(IF s = None THEN "" ELSE s), 0)

SeqSet(q) == {q[i] : i \in 1..Len(q)}

\* [out characters, index map] of s[i:], given prev_space
RECURSIVE normalized_from(_, _, _)
normalized_from(s, i, prev_space) ==
    IF i >= Len(s) THEN [out |-> "", map |-> <<>>]
    ELSE LET ch == At(s, i)
             ch2 == IF ch = UHyphenCh THEN "-" ELSE ch
         IN  IF ch \in EmphasisChars THEN normalized_from(s, i + 1, prev_space)
             ELSE IF isspace(ch2)
             THEN IF prev_space THEN normalized_from(s, i + 1, prev_space)
                  ELSE LET r == normalized_from(s, i + 1, TRUE)
                       IN  [out |-> " " \o r.out, map |-> <<i>> \o r.map]
             ELSE LET r == normalized_from(s, i + 1, FALSE)
                  IN  [out |-> ch2 \o r.out, map |-> <<i>> \o r.map]

normalized_with_map(s) ==
    LET r == normalized_from(s, 0, FALSE)
    IN  [out |-> lower(r.out), map |-> r.map]

RECURSIVE collapse_ws(_, _)
collapse_ws(s, i) ==
    IF i >= Len(s) THEN ""
    ELSE IF isspace(At(s, i))
    THEN IF i > 0 /\ isspace(At(s, i - 1)) THEN collapse_ws(s, i + 1)
         ELSE " " \o collapse_ws(s, i + 1)
    ELSE (IF At(s, i) = UHyphenCh THEN "-" ELSE At(s, i)) \o collapse_ws(s, i + 1)

normalize_anchor(a) == lower(strip(collapse_ws(IF a = None THEN "" ELSE a, 0)))

RECURSIVE skip_spaces(_, _)
skip_spaces(text, e) ==
    IF e < Len(text) /\ isspace(At(text, e)) THEN skip_spaces(text, e + 1) ELSE e

\* the list of (start, end) spans, scanning from i with the current start
RECURSIVE split_sentences_from(_, _, _)
split_sentences_from(text, i, start) ==
    IF i >= Len(text)
    THEN IF start < Len(text) THEN <<(<<start, Len(text)>>)>> ELSE <<>>
    ELSE LET ch == At(text, i)
             prev == IF i - 1 >= 0 THEN At(text, i - 1) ELSE ""
             nxt == IF i + 1 < Len(text) THEN At(text, i + 1) ELSE ""
         IN  IF ch \in {".", "!", "?"}
             THEN IF ch = "." /\ isdigit(prev) /\ isdigit(nxt)
                  THEN split_sentences_from(text, i + 1, start)
                  ELSE LET e == skip_spaces(text, i + 1)
                       IN  <<(<<start, i + 1>>)>> \o split_sentences_from(text, e, e)
             ELSE split_sentences_from(text, i + 1, start)

split_sentences(text) == split_sentences_from(text, 0, 0)

RECURSIVE keyword_tokens(_)
keyword_tokens(global_keywords) ==
    IF Len(global_keywords) = 0 THEN {}
    ELSE SeqSet(tokenize(Head(global_keywords))) \cup keyword_tokens(Tail(global_keywords))

score_paragraph(text, kw, global_keywords, anchor) ==
    LET ptoks == SeqSet(tokenize(text))
        ktoks == SeqSet(tokenize(kw))
        gtoks == keyword_tokens(global_keywords)
        atoks == SeqSet(tokenize(anchor))
    IN  2 * Cardinality(ktoks \cap ptoks)
          + Cardinality(atoks \cap ptoks)
          + Cardinality(gtoks \cap ptoks)

-----------------------------------------------------------------------------
(* renderer.py: insert_link                                                *)

\* the word-boundary test on text[pos:endpos]; trail is the literal of
\* trailing characters the source names beside "not alphanumeric"
boundary_ok(text_lower, pos, endpos, trail) ==
    LET before_char == IF pos > 0 THEN At(text_lower, pos - 1) ELSE " "
        after_char == IF endpos < Len(text_lower) THEN At(text_lower, endpos) ELSE " "
    IN  /\ ~isalnum(before_char)
        /\ (~isalnum(after_char) \/ after_char \in CharsOf(trail))

TrailScan == " .,;:!?-" \o EmDashCh
TrailSentence == " .,;:!?"
TrailToken == " .,;:!?-"

\* lines[a:b] = repl
replace_lines(lines, a, b, repl) == LSlice(lines, 0, a) \o repl \o LFrom(lines, b)

\* renderer.py:194-206: does paragraph idx hold the anchor on word boundaries
scan_hit(lines, range, anchor_lower_global) ==
    LET plower == lower(paragraph_text(lines, range))
        pos == find(plower, anchor_lower_global)
    IN  /\ pos >= 0
        /\ boundary_ok(plower, pos, pos + Len(anchor_lower_global), TrailScan)

\* renderer.py:211-223: the unused paragraph of highest score, lowest index
\* first; 0 when every paragraph is used
best_scored(lines, pranges, used, keyword, keywords, anchor) ==
    LET free == {i \in 0..(Len(pranges) - 1) : i \notin used}
        sc(i) == score_paragraph(paragraph_text(lines, pranges[i + 1]),
                                 keyword, keywords, anchor)
    IN  IF free = {} THEN -1
        ELSE Min({i \in free : \A j \in free : sc(j) <= sc(i)})

\* renderer.py:192-223
choose_paragraph(lines, pranges, anchor, keyword, keywords, hint_par_idx, used) ==
    LET hits == {i \in 0..(Len(pranges) - 1) :
                    i \notin used /\ scan_hit(lines, pranges[i + 1], lower(anchor))}
        best == best_scored(lines, pranges, used, keyword, keywords, anchor)
    IN  IF hits # {} THEN Min(hits)
        ELSE IF /\ hint_par_idx # NoIndex
                /\ 0 <= hint_par_idx /\ hint_par_idx < Len(pranges)
                /\ hint_par_idx \notin used
        THEN hint_par_idx
        ELSE IF best < 0 THEN 0 ELSE best

\* renderer.py:242-253: [raised, pos, endpos] of the anchor in the paragraph
locate_anchor(paragraph, anchor) ==
    LET nm == normalized_with_map(paragraph)
        anchor_norm == normalize_anchor(anchor)
        pos_norm == find(nm.out, anchor_norm)
        last == pos_norm + Len(anchor_norm) - 1
        pos == find(lower(paragraph), lower(anchor))
    IN  IF pos_norm >= 0
        THEN IF Len(nm.map) = 0
             THEN [raised |-> TRUE, pos |-> -1, endpos |-> -1]    \* idx_map[0]
             ELSE [raised |-> FALSE,
                   pos |-> nm.map[pos_norm + 1],
                   endpos |-> (IF last < 0 THEN nm.map[Len(nm.map)]
                               ELSE nm.map[last + 1]) + 1]
        ELSE [raised |-> FALSE, pos |-> pos,
              endpos |-> IF pos >= 0 THEN pos + Len(lower(anchor)) ELSE -1]

\* [before, middle, possessive, rest_after] around text[pos:endpos]
splice_parts(text, pos, endpos, with_possessive) ==
    LET after == From(text, endpos)
        poss == with_possessive /\ startswith(after, "'s")
    IN  [before |-> Slice(text, 0, pos),
         middle |-> Slice(text, pos, endpos),
         possessive |-> IF poss THEN Slice(after, 0, 2) ELSE "",
         rest_after |-> IF poss THEN From(after, 2) ELSE after]

link_markup(text, url) == "[" \o text \o "](" \o url \o ")"

\* the splice without the text in front of the match
spliced_dropping_before(parts, url) ==
    link_markup(parts.middle, url) \o parts.possessive \o parts.rest_after

spliced(parts, url) ==
    parts.before \o link_markup(parts.middle, url) \o parts.possessive \o parts.rest_after

\* renderer.py:296-298
RECURSIVE advance_split(_, _)
advance_split(new_paragraph, split_point) ==
    IF /\ split_point < Len(new_paragraph)
       /\ ~isspace(At(new_paragraph, split_point - 1))
       /\ At(new_paragraph, split_point - 1) \notin {",", ";", ":", "!", "?"}
    THEN advance_split(new_paragraph, split_point + 1)
    ELSE split_point

\* renderer.py:287-302: the loop over line_lengths from line i on
RECURSIVE resplit_from(_, _, _, _, _, _)
resplit_from(new_paragraph, line_lengths, i, pos_in_new, link_start, link_end) ==
    IF i >= Len(line_lengths) - 1
    THEN <<From(new_paragraph, pos_in_new)>>
    ELSE LET n == Len(new_paragraph)
             t0 == Min({pos_in_new + line_lengths[i + 1], n})
             t1 == IF t0 > link_start /\ pos_in_new < link_end
                   THEN Min({Max({t0, link_end}), n}) ELSE t0
             split_point == IF t1 < n THEN advance_split(new_paragraph, t1) ELSE t1
         IN  <<Slice(new_paragraph, pos_in_new, split_point)>>
               \o resplit_from(new_paragraph, line_lengths, i + 1, split_point,
                               link_start, link_end)

\* renderer.py:280-306: the lines that replace the paragraph's lines
relaid_lines(original_lines, parts, url) ==
    LET new_paragraph == spliced(parts, url)
        line_lengths == [i \in 1..Len(original_lines) |-> Len(original_lines[i])]
        link_start == Len(parts.before)
        link_end == link_start + Len(link_markup(parts.middle, url) \o parts.possessive)
        new_lines == resplit_from(new_paragraph, line_lengths, 0, 0, link_start, link_end)
        bad == \/ Len(new_lines) # Len(original_lines)
               \/ \E i \in 1..(Len(new_lines) - 1) : strip(new_lines[i]) = ""
               \/ \E i \in 1..Len(new_lines) :
                     contains(new_lines[i], "](") /\ ~contains(new_lines[i], ")")
    IN  IF Len(original_lines) = 1 THEN <<new_paragraph>>
        ELSE IF bad THEN <<new_paragraph>>
        ELSE new_lines

\* renderer.py:242-315: the literal step; [raised, inserted, repl]
literal_step(original_lines, anchor, url) ==
    LET paragraph == join(" ", original_lines)
        loc == locate_anchor(paragraph, anchor)
        parts == splice_parts(paragraph, loc.pos, loc.endpos, TRUE)
    IN  IF loc.raised THEN [raised |-> TRUE, inserted |-> FALSE, repl |-> original_lines]
        ELSE IF loc.pos >= 0 /\ boundary_ok(lower(paragraph), loc.pos, loc.endpos, TrailScan)
        THEN [raised |-> FALSE, inserted |-> TRUE,
              repl |-> relaid_lines(original_lines, parts, url)]
        ELSE [raised |-> FALSE, inserted |-> FALSE, repl |-> original_lines]

\* renderer.py:318-353: the sentence step; [inserted, repl]
sentence_step(original_lines, anchor, url, hint_sent_idx) ==
    LET paragraph == join(" ", original_lines)
        spans == split_sentences(paragraph)
        t == IF hint_sent_idx # NoIndex /\ 0 <= hint_sent_idx /\ hint_sent_idx < Len(spans)
             THEN hint_sent_idx ELSE 0
        span == spans[t + 1]
        sentence == Slice(paragraph, span[1], span[2])
        pos == find(lower(sentence), lower(anchor))
        endpos == pos + Len(lower(anchor))
        parts == splice_parts(sentence, pos, endpos, TRUE)
    IN  IF /\ Len(spans) > 0
           /\ pos >= 0
           /\ boundary_ok(lower(sentence), pos, endpos, TrailSentence)
        THEN [inserted |-> TRUE,
              repl |-> <<Slice(paragraph, 0, span[1]) \o spliced(parts, url)
                           \o From(paragraph, span[2])>>]
        ELSE [inserted |-> FALSE, repl |-> original_lines]

\* renderer.py:356-379: the token step; [inserted, repl]
token_step(original_lines, anchor, url) ==
    LET paragraph == join(" ", original_lines)
        plower == lower(paragraph)
        toks == tokenize(anchor)
        ok(i) == /\ Len(toks[i]) >= 3
                 /\ find(plower, toks[i]) >= 0
                 /\ boundary_ok(plower, find(plower, toks[i]),
                                find(plower, toks[i]) + Len(toks[i]), TrailToken)
        good == {i \in 1..Len(toks) : ok(i)}
        \* sorted(..., key=len, reverse=True) is stable: longest first, then input order
        first == CHOOSE i \in good :
                    \A j \in good : \/ Len(toks[j]) < Len(toks[i])
                                    \/ (Len(toks[j]) = Len(toks[i]) /\ i <= j)
        pos == find(plower, toks[first])
        parts == splice_parts(paragraph, pos, pos + Len(toks[first]), FALSE)
    IN  IF good # {}
        THEN [inserted |-> TRUE, repl |-> <<spliced(parts, url)>>]
        ELSE [inserted |-> FALSE, repl |-> original_lines]

\* renderer.py:382-389
append_step(original_lines, anchor, url) ==
    LET n == Len(original_lines)
        last_line == rstrip(original_lines[n])
        tail_space == IF last_line # "" /\ ~endswith(last_line, " ") THEN " " ELSE ""
    IN  SubSeq(original_lines, 1, n - 1)
          \o <<last_line \o tail_space \o link_markup(anchor, url)>>

\* renderer.py:183-191: the section has no paragraph
no_paragraph_insert(lines, start, anchor, url) ==
    LET line == IF 0 <= start /\ start < Len(lines) THEN lines[start + 1] ELSE ""
    IN  IF strip(line) # ""
        THEN replace_lines(lines, start, start + 1,
                           <<line \o " " \o link_markup(anchor, url)>>)
        ELSE replace_lines(lines, start, start, <<link_markup(anchor, url)>>)

\* insert_link: [raised, lines, chosen, step]; chosen is the index of the
\* paragraph worked on (-1 when the section has none), step names the branch
\* what insert_link hands back when it returns: the new lines, the chosen
\* paragraph and the cascade step that placed the link
insert_result(lines, chosen_idx, step) ==
    [raised |-> FALSE, lines |-> lines, chosen |-> chosen_idx, step |-> step]

\* renderer.py: the token-window step, else the append
insert_token(lines, range, chosen_idx, original_lines, anchor, url, tok) ==
    IF tok.inserted
    THEN insert_result(replace_lines(lines, range[1], range[2], tok.repl), chosen_idx, "token")
    ELSE insert_result(replace_lines(lines, range[1], range[2],
                                     append_step(original_lines, anchor, url)),
                       chosen_idx, "append")

\* renderer.py: the sentence step, else the later steps
insert_sentence(lines, range, chosen_idx, original_lines, anchor, url, sen) ==
    IF sen.inserted
    THEN insert_result(replace_lines(lines, range[1], range[2], sen.repl), chosen_idx, "sentence")
    ELSE insert_token(lines, range, chosen_idx, original_lines, anchor, url,
                      token_step(original_lines, anchor, url))

\* renderer.py: the literal step, else the later steps
insert_literal(lines, range, chosen_idx, original_lines, anchor, url, hint_sent_idx, lit) ==
    IF lit.raised
    THEN [raised |-> TRUE, lines |-> lines, chosen |-> chosen_idx, step |-> "raised"]
    ELSE IF lit.inserted
    THEN insert_result(replace_lines(lines, range[1], range[2], lit.repl), chosen_idx, "literal")
    ELSE insert_sentence(lines, range, chosen_idx, original_lines, anchor, url,
                         sentence_step(original_lines, anchor, url, hint_sent_idx))

\* renderer.py: the chosen paragraph's lines; nothing to do when the URL is there
insert_in_paragraph(lines, range, chosen_idx, original_lines, anchor, url, hint_sent_idx) ==
    IF contains(join(" ", original_lines), url)
    THEN insert_result(lines, chosen_idx, "present")
    ELSE insert_literal(lines, range, chosen_idx, original_lines, anchor, url, hint_sent_idx,
                        literal_step(original_lines, anchor, url))

insert_at(lines, pranges, chosen_idx, anchor, url, hint_sent_idx) ==
    insert_in_paragraph(lines, pranges[chosen_idx + 1], chosen_idx,
                        LSlice(lines, pranges[chosen_idx + 1][1], pranges[chosen_idx + 1][2]),
                        anchor, url, hint_sent_idx)

\* renderer.py: a section without paragraphs, else the paragraph choice
insert_in_section(lines, bounds, pranges, anchor, url, keyword, hint_par_idx, hint_sent_idx, used_paragraphs, keywords) ==
    IF Len(pranges) = 0
    THEN insert_result(no_paragraph_insert(lines, bounds[1], anchor, url), -1, "section_start")
    ELSE insert_at(lines, pranges,
                   choose_paragraph(lines, pranges, anchor, keyword, keywords,
                                    hint_par_idx, used_paragraphs),
                   anchor, url, hint_sent_idx)

insert_in_bounds(lines, bounds, anchor, url, keyword, hint_par_idx, hint_sent_idx, used_paragraphs, keywords) ==
    insert_in_section(lines, bounds, paragraph_ranges(lines, bounds[1], bounds[2]),
                      anchor, url, keyword, hint_par_idx, hint_sent_idx, used_paragraphs,
                      keywords)

\* _insert_link: [raised, lines, chosen, step]
insert_link(lines, anchor, url, target_heading, keyword, hint_par_idx, hint_sent_idx, used_paragraphs, keywords) ==
    insert_in_bounds(lines, section_bounds(lines, target_heading), anchor, url, keyword,
                     hint_par_idx, hint_sent_idx, used_paragraphs, keywords)

-----------------------------------------------------------------------------
(* renderer.py: render_enriched_markdown, one step per operator            *)
(*                                                                         *)
(* A Selection is [hero, context_item, links]; a media item is             *)
(* [type, url, alt, place], a link [url, anchor, keyword, place], a Place  *)
(* [section_heading, paragraph_index, sentence_index].  The id fields and  *)
(* after_heading are never read by the modelled code and are left out.     *)

\* x or y, on optional strings
str_or(x, y) == IF x = None \/ x = "" THEN y ELSE x

\* renderer.py:50-56
hero_step(original_markdown, selection) ==
    LET lines == splitlines(original_markdown)
    IN  insert_after(lines, find_h1_index(lines),
                     make_image_markdown(selection.hero.alt, selection.hero.url))

\* renderer.py:59-64
context_step(lines, selection) ==
    LET c == selection.context_item
        ctx_block == IF c.type = "image" THEN make_image_markdown(c.alt, c.url)
                     ELSE make_video_block(c.alt, c.url)
    IN  insert_after(lines, find_heading_index(lines, c.place.section_heading), ctx_block)

link_target(selection, link) ==
    str_or(link.place.section_heading, selection.context_item.place.section_heading)

section_key(target) == lower(strip(str_or(target, "")))

used_of(used_by_section, key) ==
    IF key \in DOMAIN used_by_section THEN used_by_section[key] ELSE {}

\* renderer.py:406-422: the index marked used after a link (-1: none);
\* pranges are those of the lines before the insertion, lines those after it
marked_index(lines, pranges, hint_idx, used, link, keywords) ==
    LET free == {i \in 0..(Len(pranges) - 1) : i \notin used}
        sc(i) == score_paragraph(paragraph_text(lines, pranges[i + 1]),
                                 link.keyword, keywords, link.anchor)
    IN  IF hint_idx # NoIndex /\ 0 <= hint_idx /\ hint_idx < Len(pranges) /\ hint_idx \notin used
        THEN hint_idx
        ELSE IF free = {} THEN -1
        ELSE Min({i \in free : \A j \in free : sc(j) <= sc(i)})

\* renderer.py:392-422, one iteration: [raised, lines, used, chosen, step]
link_marked(used_by_section, key, used, r, m) ==
    [raised |-> r.raised,
     lines |-> r.lines,
     used |-> IF r.raised THEN used_by_section
              ELSE [k \in DOMAIN used_by_section \cup {key} |->
                       IF k = key THEN (IF m < 0 THEN used ELSE used \cup {m})
                       ELSE used_by_section[k]],
     chosen |-> r.chosen,
     step |-> r.step]

link_inserted(used_by_section, key, used, pranges, link, keywords, r) ==
    link_marked(used_by_section, key, used, r,
                marked_index(r.lines, pranges, link.place.paragraph_index, used,
                             link, keywords))

link_in_bounds(lines, used_by_section, target, key, used, bounds, link, keywords) ==
    link_inserted(used_by_section, key, used,
                  paragraph_ranges(lines, bounds[1], bounds[2]), link, keywords,
                  insert_link(lines, link.anchor, link.url, target, link.keyword,
                              link.place.paragraph_index, link.place.sentence_index,
                              used, keywords))

link_in_section(lines, used_by_section, target, link, keywords) ==
    link_in_bounds(lines, used_by_section, target, section_key(target),
                   used_of(used_by_section, section_key(target)),
                   section_bounds(lines, target), link, keywords)

\* renderer.py:392-422, one iteration: [raised, lines, used, chosen, step]
link_step(lines, used_by_section, selection, link, keywords) ==
    link_in_section(lines, used_by_section, link_target(selection, link), link, keywords)

\* renderer.py:424-433, one iteration
post_step(lines, selection, link) ==
    LET full == join("\n", lines)
        end == section_bounds(lines, link_target(selection, link))[2]
    IN  IF contains(full, link.url) THEN lines
        ELSE LSlice(lines, 0, end) \o <<"", link_markup(link.anchor, link.url)>>
               \o LFrom(lines, end)

\* renderer.py:392-422, the loop from link k on; st is [raised, lines, used, ...]
RECURSIVE links_pass(_, _, _, _)
links_pass(st, selection, keywords, k) ==
    IF k >= Len(selection.links) \/ st.raised THEN st
    ELSE links_pass(link_step(st.lines, st.used, selection, selection.links[k + 1], keywords),
                    selection, keywords, k + 1)

RECURSIVE post_pass(_, _, _)
post_pass(lines, selection, k) ==
    IF k >= Len(selection.links) THEN lines
    ELSE post_pass(post_step(lines, selection, selection.links[k + 1]), selection, k + 1)

\* renderer.py:424-441: the post-pass and the join, unless a link raised
render_result(st, selection) ==
    IF st.raised THEN [raised |-> TRUE, text |-> ""]
    ELSE [raised |-> FALSE, text |-> join("\n", post_pass(st.lines, selection, 0))]

\* render_enriched_markdown: [raised, text]
render_enriched_markdown(original_markdown, selection, keywords) ==
    render_result(
        links_pass([raised |-> FALSE,
                    lines |-> context_step(hero_step(original_markdown, selection), selection),
                    used |-> <<>>],
                   selection, keywords, 0),
        selection)

-----------------------------------------------------------------------------
(* qa.py: the structural validator                                         *)

\* _anchors_include_keywords: require_kw is the ANCHOR_REQUIRE_KEYWORDS flag
anchors_include_keywords(selection, keywords, require_kw) ==
    LET kset == {lower(strip(keywords[i])) : i \in 1..Len(keywords)}
        bad(l) == LET a == lower(strip(l.anchor))
                  IN  \/ a = ""
                      \/ contains(a, "click here")
                      \/ (require_kw /\ ~\E k \in kset : contains(a, k))
    IN  ~\E i \in 1..Len(selection.links) : bad(selection.links[i])

\* the validator with the link check in front of the media checks
validate_output_links_first(markdown, selection, keywords, require_kw) ==
    IF \E i \in 1..Len(selection.links) : ~contains(markdown, selection.links[i].url)
    THEN "A selected link URL is missing from output"
    ELSE IF ~contains(markdown, selection.hero.url)
    THEN "Hero image not found in output"
    ELSE IF ~contains(markdown, selection.context_item.url)
    THEN "Context media not found in output"
    ELSE IF ~anchors_include_keywords(selection, keywords, require_kw)
    THEN "Anchor text must include provided keywords and avoid 'click here'"
    ELSE ""

\* validate_output: "" when it returns, else the message of the ValueError
validate_output(markdown, selection, keywords, require_kw) ==
    IF ~contains(markdown, selection.hero.url)
    THEN "Hero image not found in output"
    ELSE IF ~contains(markdown, selection.context_item.url)
    THEN "Context media not found in output"
    ELSE IF \E i \in 1..Len(selection.links) : ~contains(markdown, selection.links[i].url)
    THEN "A selected link URL is missing from output"
    ELSE IF ~anchors_include_keywords(selection, keywords, require_kw)
    THEN "Anchor text must include provided keywords and avoid 'click here'"
    ELSE ""

-----------------------------------------------------------------------------
(* pipeline.py: pre_validate                                               *)

\* str.split(): the whitespace-separated words
RECURSIVE split_words(_)
split_words(s) ==
    LET t == lstrip(s)
        ws == {i \in 0..(Len(t) - 1) : isspace(At(t, i))}
    IN  IF t = "" THEN <<>>
        ELSE IF ws = {} THEN <<t>>
        ELSE <<Slice(t, 0, Min(ws))>> \o split_words(From(t, Min(ws)))

str_isalpha(t) == t # "" /\ \A i \in 0..(Len(t) - 1) : isalpha(At(t, i))

GenericAnchors == {"overview", "basics", "learn more", "click here"}

b2i(b) == IF b THEN 1 ELSE 0

link_quality(l, keywords) ==
    LET a == strip(l.anchor)
        words == split_words(a)
        toks == {i \in 1..Len(words) : str_isalpha(words[i])}
        has_kw == \E i \in 1..Len(keywords) : contains(lower(a), lower(keywords[i]))
        length_ok == 8 <= Len(a) /\ Len(a) <= 80
        tok_ok == Cardinality(toks) >= 2
        not_generic_only == lower(a) \notin GenericAnchors
    IN  b2i(has_kw) + b2i(length_ok) + b2i(tok_ok) + b2i(not_generic_only)

RECURSIVE quality_sum(_, _, _)
quality_sum(links, keywords, i) ==
    IF i > Len(links) THEN 0
    ELSE link_quality(links[i], keywords) + quality_sum(links, keywords, i + 1)

PreValidateMin == 6

\* pre_validate: <<ok, score>>
pre_validate(sel, keywords) ==
    LET score == quality_sum(sel.links, keywords, 1)
    IN  <<score >= PreValidateMin, score>>

-----------------------------------------------------------------------------
(* shared/types.py: construction of the pydantic models                    *)

AltMaxLength == 125

\* MediaSelection(...): TRUE when construction raises
media_selection_raises(type, alt) ==
    LET bad == lower(strip(alt))
    IN  \/ type \notin {"image", "video"}
        \/ Len(alt) < 1
        \/ Len(alt) > AltMaxLength
        \/ startswith(bad, "image of")
        \/ startswith(bad, "picture of")

\* Selection.must_have_two_links: TRUE when construction raises
must_have_two_links_at_most(v) == Len(v) > 2

must_have_two_links_raises(v) == Len(v) # 2

\* Selection(hero=..., context_item=..., links=...): [raised, sel]
make_selection(hero, context_item, links) ==
    IF \/ media_selection_raises(hero.type, hero.alt)
       \/ media_selection_raises(context_item.type, context_item.alt)
       \/ must_have_two_links_raises(links)
    THEN [raised |-> TRUE, sel |-> None]
    ELSE [raised |-> FALSE,
          sel |-> [hero |-> hero, context_item |-> context_item, links |-> links]]

-----------------------------------------------------------------------------
(* shortlist.py build_article_profile (its headings) and llm_select.py     *)

\* profile["headings"]: group(2) of every heading line, in order
RECURSIVE headings_of(_)
headings_of(lines) ==
    IF Len(lines) = 0 THEN <<>>
    ELSE (IF is_heading(Head(lines)) THEN <<heading_group2(Head(lines))>> ELSE <<>>)
           \o headings_of(Tail(lines))

profile_headings(markdown) == headings_of(splitlines(markdown))

HeadingHints == <<"infrastructure", "storage", "how co2 is captured",
                  "moving the molecule", "why commuters are switching">>

\* llm_select.py:189-202
fallback_target(headings) ==
    LET low == [i \in 1..Len(headings) |-> lower(headings[i])]
        hit == {i \in 1..Len(low) :
                   \E h \in 1..Len(HeadingHints) : contains(low[i], HeadingHints[h])}
        t == IF hit # {} THEN low[Min(hit)] ELSE None
    IN  IF t # None /\ t # "" THEN t
        ELSE IF Len(low) > 0 THEN low[1] ELSE None

\* x.get(a) or x.get(b) or dflt, on optional strings
first_text(a, b, dflt) == str_or(a, str_or(b, dflt))

AltCut == 120
AnchorCut == 60
KeywordShort == 40

\* llm_select.py:219-224
make_anchor(link, keyword) ==
    LET base == lower(first_text(link.title, link.description, "overview"))
    IN  IF contains(base, lower(keyword)) THEN Slice(base, 0, AnchorCut)
        ELSE IF Len(keyword) < KeywordShort THEN keyword \o " basics"
        ELSE Slice(keyword, 0, AnchorCut)

\* a candidate is [url, type, title, description]; buckets are lists
\* _fallback_selection: [raised, sel]
fallback_selection(headings, keywords, candidates) ==
    LET hero_bucket == candidates.hero
        context_bucket == candidates.context
        link_bucket == candidates.links
        hero == hero_bucket[1]
        context == IF Len(context_bucket) > 1 THEN context_bucket[2]
                   ELSE IF Len(context_bucket) > 0 THEN context_bucket[1]
                   ELSE hero
        links == IF Len(link_bucket) >= 2 THEN SubSeq(link_bucket, 1, 2) ELSE link_bucket
        target == fallback_target(headings)
        no_place == [section_heading |-> None, paragraph_index |-> NoIndex,
                     sentence_index |-> NoIndex]
        hero_sel == [type |-> "image", url |-> hero.url,
                     alt |-> Slice(strip(first_text(hero.description, hero.title,
                                                    "Hero image")), 0, AltCut),
                     place |-> no_place]
        context_sel == [type |-> str_or(context.type, "image"), url |-> context.url,
                        alt |-> Slice(strip(first_text(context.description, context.title,
                                                       "Context media")), 0, AltCut),
                        place |-> [no_place EXCEPT !.section_heading = target]]
        \* keywords[i % len(keywords)], i from 0
        kw(i) == keywords[((i - 1) % Len(keywords)) + 1]
        link_selections ==
            [i \in 1..Len(links) |->
                [url |-> links[i].url,
                 anchor |-> make_anchor(links[i], kw(i)),
                 keyword |-> kw(i),
                 place |-> [section_heading |-> target, paragraph_index |-> 0,
                            sentence_index |-> 0]]]
    IN  IF Len(hero_bucket) = 0 THEN [raised |-> TRUE, sel |-> None]
        ELSE IF media_selection_raises(hero_sel.type, hero_sel.alt)
        THEN [raised |-> TRUE, sel |-> None]
        ELSE IF media_selection_raises(context_sel.type, context_sel.alt)
        THEN [raised |-> TRUE, sel |-> None]
        ELSE IF Len(links) > 0 /\ Len(keywords) = 0
        THEN [raised |-> TRUE, sel |-> None]           \* i % 0
        ELSE make_selection(hero_sel, context_sel, link_selections)

\* What the model endpoint may answer: LlmFailed (the request, the JSON or a
\* field lookup raises) or the three parts of a Selection.
LlmFailed == [kind |-> "failed"]

\* select_assets_with_llm, its Selection: [raised, sel].  reply is the
\* endpoint's answer, read only when not offline.  ANCHOR_SANITIZE is at its
\* default (off).
uses_fallback(offline, reply) ==
    \/ offline
    \/ reply.kind = "failed"
    \/ make_selection(reply.hero, reply.context_item, reply.links).raised

select_assets_with_llm(headings, keywords, candidates, offline, reply) ==
    IF uses_fallback(offline, reply)
    THEN fallback_selection(headings, keywords, candidates)
    ELSE make_selection(reply.hero, reply.context_item, reply.links)

-----------------------------------------------------------------------------
(* pipeline.py: the values the retry loop of enrich works on               *)

\* Optional values: None is the empty set, a present value x is {x}
Nothing == {}
Some(x) == {x}

NoPlace == [section_heading |-> None, paragraph_index |-> NoIndex, sentence_index |-> NoIndex]

\* `selection` before the first Selector call returned
NoSelection ==
    [hero |-> [type |-> "image", url |-> None, alt |-> None, place |-> NoPlace],
     context_item |-> [type |-> "image", url |-> None, alt |-> None, place |-> NoPlace],
     links |-> <<>>]

\* {selection.hero.url, selection.context_item.url, *(l.url for l in selection.links)}
selection_urls_hero_context(selection) ==
    {selection.hero.url, selection.context_item.url}

selection_urls(selection) ==
    {selection.hero.url, selection.context_item.url}
        \cup {selection.links[i].url : i \in 1..Len(selection.links)}

\* attempts[-1] if attempts else None
previous_selection(attempts) ==
    IF Len(attempts) = 0 THEN Nothing ELSE Some(attempts[Len(attempts)])

\* last_reasons or None
reject_reasons_dropped(last_reasons) == Nothing

reject_reasons(last_reasons) ==
    IF last_reasons = <<>> THEN Nothing ELSE Some(last_reasons)

\* list(avoid_urls) if avoid_urls else None
avoid_urls_arg(avoid_urls) ==
    IF avoid_urls = {} THEN Nothing ELSE Some(avoid_urls)

QAThreshold == 7

\* the verdict read from the accepted flag alone
passed_by_flag(res) ==
    TRUE \in res.accepted

\* bool(res.accepted) or (res.rating is not None and res.rating >= res.threshold)
passed(res) ==
    \/ TRUE \in res.accepted
    \/ \E x \in res.rating : x >= res.threshold

PreValidationReason == "pre-validation quality below threshold"

\* (res.reasons or []) + ([] if ok else ["pre-validation quality below threshold"])
reviewer_reasons_only(res, ok) == res.reasons

reviewer_reasons(res, ok) ==
    res.reasons \o (IF ok THEN <<>> ELSE <<PreValidationReason>>)

\* for attempt in range(1, max_attempts + 1): where control goes after a
\* rejected attempt
loop_next_one_more(attempt, max_attempts) ==
    IF attempt <= max_attempts THEN "select" ELSE "finish"

loop_next_one_less(attempt, max_attempts) ==
    IF attempt + 1 < max_attempts THEN "select" ELSE "finish"

loop_next(attempt, max_attempts) ==
    IF attempt < max_attempts THEN "select" ELSE "finish"

\* one entry of the history of attempts
\* one entry of the history of attempts: the Selection, pre_validate's ok, which
\* quality check ran and whether it passed, the reviewer's reasons, whether the
\* attempt was accepted and the reasons a rejection left in last_reasons
outcome(selection, ok, check, check_passed, reasons, accepted, rejected_with) ==
    [selection |-> selection, ok |-> ok, check |-> check, passed |-> check_passed,
     reasons |-> reasons, accepted |-> accepted, rejected_with |-> rejected_with]

-----------------------------------------------------------------------------
(* Inputs of the renderer specification                                    *)

MaxParHint == 1          \* paragraph hints range over None, 0..MaxParHint

RArticles ==
    { "# T\n\n## S\n\nText.\n",
      "# T\n\n## S\n\nno match here.\n\nride a bike now.\n",
      "# T\n\n## S\n\n1. **e~bike** rules.\n2. bike two.\n",
      "# T\n## S\n## U\nbike\n",
      "bike ride\n## S",
      "# T\n## S\nthe bike's\nbell. Text\n\nok\n",
      "## S\n\n***\n\nintro e-bike\n- bike a\n" }

RKeywords == <<"bike">>
HeroUrl == "h"
CtxUrl == "c"
LinkUrl1 == "u/bike"
LinkUrl2 == "v"

ParHints == {NoIndex} \cup 0..MaxParHint
SentHints == {0, 1}

RHero == [type |-> "image", url |-> HeroUrl, alt |-> "Hero", place |-> NoPlace]

RContexts ==
    { [type |-> "image", url |-> CtxUrl, alt |-> "Ctx",
       place |-> [NoPlace EXCEPT !.section_heading = "S"]],
      [type |-> "video", url |-> CtxUrl, alt |-> "Clip.",
       place |-> [NoPlace EXCEPT !.section_heading = "T"]] }

RFirstLinks ==
    { [url |-> LinkUrl1, anchor |-> a, keyword |-> "bike",
       place |-> [section_heading |-> h, paragraph_index |-> p, sentence_index |-> q]] :
         a \in {"bike", "e-bike", "Text", ""}, h \in {"S", "Zz"},
         p \in ParHints, q \in SentHints }

RSecondLinks ==
    { [url |-> u, anchor |-> a, keyword |-> "bike",
       place |-> [section_heading |-> None, paragraph_index |-> p, sentence_index |-> 0]] :
         u \in {LinkUrl1, LinkUrl2}, a \in {"bike", "xyz"}, p \in ParHints }

RSelections ==
    { [hero |-> RHero, context_item |-> c, links |-> <<l1, l2>>] :
         c \in RContexts, l1 \in RFirstLinks, l2 \in RSecondLinks }

RLink(url, anchor, heading, par) ==
    [url |-> url, anchor |-> anchor, keyword |-> "bike",
     place |-> [section_heading |-> heading, paragraph_index |-> par, sentence_index |-> 0]]

RCase(article, ctx_heading, first, second) ==
    <<article,
      [hero |-> RHero,
       context_item |-> [type |-> "image", url |-> CtxUrl, alt |-> "Ctx",
                         place |-> [NoPlace EXCEPT !.section_heading = ctx_heading]],
       links |-> <<first, second>>]>>

\* further (article, Selection) pairs: an anchor in another letter case than
\* the text, an anchor whose first occurrence sits inside a longer word, a
\* context item without a section heading, the same link given twice
RMoreCases ==
    { RCase("# T\n\n## S\n\nText.\n", "S",
            RLink(LinkUrl1, "text", "S", 0), RLink(LinkUrl2, "xyz", None, NoIndex)),
      RCase("# T\n\n## S\n\nno match here.\n\nebike bike now.\n", "S",
            RLink(LinkUrl1, "bike", "S", 0), RLink(LinkUrl2, "xyz", None, NoIndex)),
      RCase("# T\n\n## S\n\nText.\n", None,
            RLink(LinkUrl1, "Text", "S", 0), RLink(LinkUrl2, "xyz", "S", NoIndex)),
      RCase("# T\n\n## S\n\n1. first.\n2. second.\n3. a bike here.\n", "S",
            RLink(LinkUrl1, "bike", "S", 1), RLink(LinkUrl1, "bike", "S", 1)) }

\* the (article, Selection) pairs render_enriched_markdown is called on
RCases == (RArticles \X RSelections) \cup RMoreCases

\* the part of the state a specification does not use
RenderOff ==
    /\ r_pc = "off"
    /\ r_article = ""
    /\ r_sel = NoSelection
    /\ r_lines = <<>>
    /\ r_used = <<>>
    /\ r_k = 0
    /\ r_log = <<>>

EnrichOff ==
    /\ e_pc = "off"
    /\ e_article_text = ""
    /\ e_candidates = [hero |-> <<>>, context |-> <<>>, links |-> <<>>]
    /\ e_offline = TRUE
    /\ e_qa_mode = "auto"
    /\ e_max_attempts = 0
    /\ e_require_kw = FALSE
    /\ e_attempt = 0
    /\ e_selection = NoSelection
    /\ e_ok = FALSE
    /\ e_enriched = ""
    /\ e_attempts = <<>>
    /\ e_avoid_urls = {}
    /\ e_last_reasons = <<>>
    /\ e_final_enriched = ""
    /\ e_accepted = FALSE
    /\ e_error = ""
    /\ e_written = <<>>
    /\ e_calls = <<>>
    /\ e_outcomes = <<>>

-----------------------------------------------------------------------------
(* The renderer, step by step                                              *)

CallOff ==
    /\ p_pc = "off"
    /\ p_fn = ""
    /\ p_args = <<>>
    /\ p_result = <<>>

FilterOff ==
    /\ f_pc = "off"
    /\ f_candidates = <<>>
    /\ f_reply = <<>>
    /\ f_probe = <<>>
    /\ f_out = <<>>

RenderInit ==
    /\ EnrichOff
    /\ CallOff
    /\ FilterOff
    /\ r_pc = "hero"
    /\ \E c \in RCases : r_article = c[1] /\ r_sel = c[2]
    /\ r_lines = <<>>
    /\ r_used = <<>>
    /\ r_k = 0
    /\ r_log = <<>>

\* renderer.py:50-56
RenderHero ==
    /\ r_pc = "hero"
    /\ r_lines' = hero_step(r_article, r_sel)
    /\ r_pc' = "context"
    /\ UNCHANGED <<r_article, r_sel, r_used, r_k, r_log, enrich_vars, call_vars, filter_vars>>

\* renderer.py:59-65
RenderContext ==
    /\ r_pc = "context"
    /\ r_lines' = context_step(r_lines, r_sel)
    /\ r_pc' = "link"
    /\ UNCHANGED <<r_article, r_sel, r_used, r_k, r_log, enrich_vars, call_vars, filter_vars>>

\* renderer.py:392-422, one iteration of the loop over selection.links
RenderLink ==
    /\ r_pc = "link"
    /\ r_k < Len(r_sel.links)
    /\ \E r \in {link_step(r_lines, r_used, r_sel, r_sel.links[r_k + 1], RKeywords)} :
           /\ r_lines' = r.lines
           /\ r_used' = r.used
           /\ r_log' = Append(r_log, [chosen |-> r.chosen, step |-> r.step,
                                      lines_before |-> r_lines, used_before |-> r_used,
                                      lines_after |-> r.lines])
           /\ r_k' = IF ~r.raised /\ r_k + 1 = Len(r_sel.links) THEN 0 ELSE r_k + 1
           /\ r_pc' = IF r.raised THEN "raised"
                      ELSE IF r_k + 1 = Len(r_sel.links) THEN "post" ELSE "link"
    /\ UNCHANGED <<r_article, r_sel, enrich_vars, call_vars, filter_vars>>

\* renderer.py:424-437, one iteration of the post-pass; the last one returns
RenderPost ==
    /\ r_pc = "post"
    /\ r_k < Len(r_sel.links)
    /\ r_lines' = post_step(r_lines, r_sel, r_sel.links[r_k + 1])
    /\ r_k' = r_k + 1
    /\ r_pc' = IF r_k + 1 = Len(r_sel.links) THEN "done" ELSE "post"
    /\ UNCHANGED <<r_article, r_sel, r_used, r_log, enrich_vars, call_vars, filter_vars>>

RenderNext == RenderHero \/ RenderContext \/ RenderLink \/ RenderPost

\* the text render_enriched_markdown returns
r_result == join("\n", r_lines)

-----------------------------------------------------------------------------
(* Inputs of the enrich specification                                      *)

MaxAttemptsCap == 3      \* RETRY_MAX_ATTEMPTS ranges over 0..MaxAttemptsCap

EKeywords == <<"bike">>

EArticles == { "# T\n\n## S\n\n***\n\nText about a bike.\n" }

Cand(url, type, title) == [url |-> url, type |-> type, title |-> title, description |-> None]

HeroBucket == <<Cand("h1", "image", "Hero shot")>>
ContextBucket == <<Cand("c1", "image", "Lane"), Cand("c2", "video", "Ride clip")>>

ECandidates ==
    { \* anchors "city bike lanes guide" and "bike basics"; a third candidate is left over
      [hero |-> HeroBucket, context |-> ContextBucket,
       links |-> <<Cand("u/1", None, "City bike lanes guide"), Cand("u/2", None, None),
                   Cand("u/5", None, "Spare")>>],
      \* anchors "bike" and "bike": pre-validation scores 4
      [hero |-> HeroBucket, context |-> <<>>,
       links |-> <<Cand("u/1", None, "Bike"), Cand("u/2", None, "BIKE")>>],
      \* a single link candidate
      [hero |-> HeroBucket, context |-> ContextBucket,
       links |-> <<Cand("u/1", None, "City bike lanes guide")>>],
      \* no hero candidate
      [hero |-> <<>>, context |-> ContextBucket,
       links |-> <<Cand("u/1", None, "City bike lanes guide"), Cand("u/2", None, None)>>],
      \* a hero candidate whose description opens with the banned alt prefix
      [hero |-> <<[url |-> "h1", type |-> "image", title |-> "Hero shot",
                   description |-> "Image of a bike"]>>,
       context |-> ContextBucket,
       links |-> <<Cand("u/1", None, "City bike lanes guide"), Cand("u/2", None, None)>>] }

ReplyLink(url, anchor, heading, par) ==
    [url |-> url, anchor |-> anchor, keyword |-> "bike",
     place |-> [section_heading |-> heading, paragraph_index |-> par, sentence_index |-> 0]]

Reply(links) ==
    [kind |-> "json",
     hero |-> [type |-> "image", url |-> "h2", alt |-> "Hero two", place |-> NoPlace],
     context_item |-> [type |-> "image", url |-> "c1", alt |-> "Lane",
                       place |-> [NoPlace EXCEPT !.section_heading = "S"]],
     links |-> links]

LlmReplies ==
    { LlmFailed,
      \* anchors that pass pre-validation
      Reply(<<ReplyLink("u/3", "city bike lanes", "S", 0),
              ReplyLink("u/4", "bike repair guide", None, NoIndex)>>),
      \* anchors that score 4 in pre-validation and hold no keyword
      Reply(<<ReplyLink("u/1", "xyz", "S", NoIndex), ReplyLink("u/2", "more xyz", None, NoIndex)>>),
      \* an empty anchor aimed at the paragraph of emphasis marks
      Reply(<<ReplyLink("u/3", "", "S", 0), ReplyLink("u/4", "bike repair guide", None, NoIndex)>>),
      \* one link, three links
      Reply(<<ReplyLink("u/3", "city bike lanes", "S", 0)>>),
      Reply(<<ReplyLink("u/3", "city bike lanes", "S", 0),
              ReplyLink("u/4", "bike repair guide", None, NoIndex),
              ReplyLink("u/1", "bike basics", None, NoIndex)>>) }

\* every Selection the Selector can hand back for an article of EArticles
ESelections(article_text) ==
    LET returned == {select_assets_with_llm(profile_headings(article_text), EKeywords,
                                            c, off, reply) :
                         c \in ECandidates, off \in BOOLEAN, reply \in LlmReplies}
    IN  {r.sel : r \in {x \in returned : ~x.raised}}

\* render_enriched_markdown on the inputs of this specification, computed once
Rendered ==
    [article_text \in EArticles |->
        [selection \in ESelections(article_text) |->
            render_enriched_markdown(article_text, selection, EKeywords)]]

QAVerdict(accepted, rating, reasons) ==
    [accepted |-> accepted, rating |-> rating, reasons |-> reasons, threshold |-> QAThreshold]

QAResults ==
    { QAVerdict(Some(TRUE), Nothing, <<>>),
      QAVerdict(Some(FALSE), Some(8), <<>>),
      QAVerdict(Nothing, Some(3), <<"R1">>),
      QAVerdict(Some(FALSE), Nothing, <<>>) }



-----------------------------------------------------------------------------
(* pipeline.py: enrich, from the retry loop on.  run_selection is taken to  *)
(* hand back the Selection and run_qa the QAResult, as their annotations in *)
(* flows/crewai_agents.py and the uses in enrich have it.                   *)

Init ==
    /\ RenderOff
    /\ CallOff
    /\ FilterOff
    /\ e_article_text \in EArticles
    /\ e_candidates \in ECandidates
    /\ e_offline \in BOOLEAN
    /\ e_qa_mode \in {"fallback", "auto", "ai"}
    /\ e_max_attempts \in 0..MaxAttemptsCap
    /\ e_require_kw \in BOOLEAN
    /\ e_pc = loop_next(0, e_max_attempts)
    /\ e_attempt = 0
    /\ e_selection = NoSelection
    /\ e_ok = FALSE
    /\ e_enriched = ""
    /\ e_attempts = <<>>
    /\ e_avoid_urls = {}
    /\ e_last_reasons = <<>>
    /\ e_final_enriched = ""
    /\ e_accepted = FALSE
    /\ e_error = ""
    /\ e_written = <<>>
    /\ e_calls = <<>>
    /\ e_outcomes = <<>>

e_config == <<e_article_text, e_candidates, e_offline, e_qa_mode, e_max_attempts, e_require_kw>>

\* pipeline.py:56-70: the next iteration starts and calls the Selector
Select ==
    /\ e_pc = "select"
    /\ \E reply \in (IF e_offline THEN {LlmFailed} ELSE LlmReplies) :
       \E r \in {select_assets_with_llm(profile_headings(e_article_text), EKeywords,
                                        e_candidates, e_offline, reply)} :
           /\ e_attempt' = e_attempt + 1
           /\ e_calls' = Append(e_calls,
                  [previous_selection |-> previous_selection(e_attempts),
                   reject_reasons |-> reject_reasons(e_last_reasons),
                   avoid_urls |-> avoid_urls_arg(e_avoid_urls),
                   fallback |-> uses_fallback(e_offline, reply),
                   result |-> IF r.raised THEN Nothing ELSE Some(r.sel)])
           /\ e_selection' = IF r.raised THEN e_selection ELSE r.sel
           /\ e_error' = IF r.raised THEN "selector" ELSE e_error
           /\ e_pc' = IF r.raised THEN "failed" ELSE "render"
    /\ UNCHANGED <<e_config, e_ok, e_enriched, e_attempts, e_avoid_urls, e_last_reasons,
                   e_final_enriched, e_accepted, e_written, e_outcomes, render_vars, call_vars, filter_vars>>

\* pipeline.py:72-79: pre_validate, then render_enriched_markdown
Render ==
    /\ e_pc = "render"
    /\ e_ok' = pre_validate(e_selection, EKeywords)[1]
    /\ \E r \in {Rendered[e_article_text][e_selection]} :
           /\ e_enriched' = IF r.raised THEN e_enriched ELSE r.text
           /\ e_error' = IF r.raised THEN "renderer" ELSE e_error
           /\ e_pc' = IF r.raised THEN "failed" ELSE "qa"
    /\ UNCHANGED <<e_config, e_attempt, e_selection, e_attempts, e_avoid_urls, e_last_reasons,
                   e_final_enriched, e_accepted, e_written, e_calls, e_outcomes, render_vars, call_vars, filter_vars>>

\* final_enriched = enriched; accepted = True; break
Accept(check, check_passed, reasons) ==
    /\ e_final_enriched' = e_enriched
    /\ e_accepted' = TRUE
    /\ e_pc' = "finish"
    /\ e_outcomes' = Append(e_outcomes,
                            outcome(e_selection, e_ok, check, check_passed, reasons, TRUE, <<>>))
    /\ UNCHANGED <<e_last_reasons, e_avoid_urls, e_attempts, e_error>>

\* last_reasons = ...; avoid_urls.update(...); attempts.append(selection); next iteration
Reject(check, check_passed, reasons, new_last_reasons) ==
    /\ e_last_reasons' = new_last_reasons
    /\ e_avoid_urls' = e_avoid_urls \cup selection_urls(e_selection)
    /\ e_attempts' = Append(e_attempts, e_selection)
    /\ e_pc' = loop_next(e_attempt, e_max_attempts)
    /\ e_outcomes' = Append(e_outcomes,
                            outcome(e_selection, e_ok, check, check_passed, reasons, FALSE,
                                    new_last_reasons))
    /\ UNCHANGED <<e_final_enriched, e_accepted, e_error>>

\* the fallback branch with the validator's exception caught like the
\* reviewer's
QaFallbackRetries ==
    /\ e_pc = "qa"
    /\ e_qa_mode = "fallback"
    /\ IF validate_output(e_enriched, e_selection, EKeywords, e_require_kw) = ""
       THEN Accept("validator", TRUE, <<>>)
       ELSE Reject("validator", FALSE, <<>>, <<"fallback failed">>)
    /\ UNCHANGED <<e_config, e_attempt, e_selection, e_ok, e_enriched, e_written, e_calls,
                   render_vars, call_vars, filter_vars>>

\* pipeline.py:85-90: qa_mode "fallback", the Structural Validator alone
QaFallback ==
    /\ e_pc = "qa"
    /\ e_qa_mode = "fallback"
    /\ IF validate_output(e_enriched, e_selection, EKeywords, e_require_kw) = ""
       THEN Accept("validator", TRUE, <<>>)
       ELSE /\ e_error' = "validator"
            /\ e_pc' = "failed"
            /\ e_outcomes' = Append(e_outcomes,
                   outcome(e_selection, e_ok, "validator", FALSE, <<>>, FALSE, <<>>))
            /\ UNCHANGED <<e_last_reasons, e_avoid_urls, e_attempts, e_final_enriched,
                           e_accepted>>
    /\ UNCHANGED <<e_config, e_attempt, e_selection, e_ok, e_enriched, e_written, e_calls,
                   render_vars, call_vars, filter_vars>>

\* pipeline.py:92-110: the Quality Reviewer answers with res
QaReviewed ==
    /\ e_pc = "qa"
    /\ e_qa_mode # "fallback"
    /\ \E res \in QAResults :
           IF passed(res) /\ e_ok
           THEN Accept("reviewer", TRUE, res.reasons)
           ELSE Reject("reviewer", passed(res), res.reasons, reviewer_reasons(res, e_ok))
    /\ UNCHANGED <<e_config, e_attempt, e_selection, e_ok, e_enriched, e_written, e_calls,
                   render_vars, call_vars, filter_vars>>

\* the except branch without its validate_output call
QaReviewerRaisedUnchecked ==
    /\ e_pc = "qa"
    /\ e_qa_mode # "fallback"
    /\ IF e_qa_mode = "auto"
       THEN Accept("reviewer_error_validator", TRUE, <<>>)
       ELSE Reject("reviewer_error", FALSE, <<>>, <<"ai qa error">>)
    /\ UNCHANGED <<e_config, e_attempt, e_selection, e_ok, e_enriched, e_written, e_calls,
                   render_vars, call_vars, filter_vars>>

\* pipeline.py:111-128: the Quality Reviewer call raises
QaReviewerRaised ==
    /\ e_pc = "qa"
    /\ e_qa_mode # "fallback"
    /\ IF e_qa_mode = "auto"
       THEN IF validate_output(e_enriched, e_selection, EKeywords, e_require_kw) = ""
            THEN Accept("reviewer_error_validator", TRUE, <<>>)
            ELSE Reject("reviewer_error_validator", FALSE, <<>>,
                        <<"ai qa error and fallback failed">>)
       ELSE Reject("reviewer_error", FALSE, <<>>, <<"ai qa error">>)
    /\ UNCHANGED <<e_config, e_attempt, e_selection, e_ok, e_enriched, e_written, e_calls,
                   render_vars, call_vars, filter_vars>>

\* pipeline.py:138-144: after the loop
FinishWithoutCheck ==
    /\ e_pc = "finish"
    /\ e_written' = Append(e_written, e_final_enriched)
    /\ e_pc' = "done"
    /\ UNCHANGED <<e_config, e_attempt, e_selection, e_ok, e_enriched, e_attempts,
                   e_avoid_urls, e_last_reasons, e_final_enriched, e_accepted, e_error,
                   e_calls, e_outcomes, render_vars, call_vars, filter_vars>>

Finish ==
    /\ e_pc = "finish"
    /\ IF ~e_accepted
       THEN /\ e_error' = "not accepted"
            /\ e_pc' = "failed"
            /\ UNCHANGED e_written
       ELSE /\ e_written' = Append(e_written, e_final_enriched)
            /\ e_pc' = "done"
            /\ UNCHANGED e_error
    /\ UNCHANGED <<e_config, e_attempt, e_selection, e_ok, e_enriched, e_attempts,
                   e_avoid_urls, e_last_reasons, e_final_enriched, e_accepted, e_calls,
                   e_outcomes, render_vars, call_vars, filter_vars>>

Next == Select \/ Render \/ QaFallback \/ QaReviewed \/ QaReviewerRaised \/ Finish

Spec == Init /\ [][Next]_vars

SpecRender == RenderInit /\ [][RenderNext]_vars

-----------------------------------------------------------------------------
(* Properties of enrich and of the renderer                                *)

Terminal == e_pc \in {"done", "failed"}

\* the reasons list a Selector call received (None read as the empty list)
received_reasons(call) ==
    IF call.reject_reasons = Nothing THEN <<>> ELSE CHOOSE l \in call.reject_reasons : TRUE

\* the four URLs of a Selection are all in the set urls
all_urls_in(selection, urls) ==
    /\ selection.hero.url \in urls
    /\ selection.context_item.url \in urls
    /\ \A i \in 1..Len(selection.links) : selection.links[i].url \in urls

\* C1: the output path is written only after an attempt was accepted: a run
\* that has not finished, or that ended in failure, has written nothing, and a
\* run that succeeded has written exactly once, the render of the Selection of
\* its accepted (last) attempt.
C1_WriteOnlyAfterAccept ==
    /\ e_pc # "done" => e_written = <<>>
    /\ e_pc = "done" =>
          /\ Len(e_written) = 1
          /\ e_accepted
          /\ Len(e_outcomes) > 0
          /\ e_outcomes[Len(e_outcomes)].accepted
          /\ \E r \in {Rendered[e_article_text][e_outcomes[Len(e_outcomes)].selection]} :
                 ~r.raised /\ e_written[1] = r.text

\* a run that succeeded on a later attempt, after a rejection
C1_Witness == e_pc = "done" /\ Len(e_attempts) > 0 /\ Len(e_written) = 1

\* C2: render_enriched_markdown returns, for every article and Selection, a
\* text that holds the hero URL, the context URL and both link URLs.
C2_RenderReturnsAllUrls ==
    /\ r_pc # "raised"
    /\ r_pc = "done" =>
          /\ contains(r_result, r_sel.hero.url)
          /\ contains(r_result, r_sel.context_item.url)
          /\ \A i \in 1..Len(r_sel.links) : contains(r_result, r_sel.links[i].url)

LoopMeasure ==
    4 * (e_max_attempts - e_attempt)
      + (CASE e_pc = "render" -> 3
           [] e_pc = "qa" -> 2
           [] e_pc \in {"select", "finish"} -> 1
           [] OTHER -> 0)

\* C4: the retry loop ends, in success or failure, after at most max_attempts
\* Selector calls: every step lowers a measure that is never negative; only the
\* last attempt can be an accepted one, and no Selector call follows it.
C4_LoopTerminates ==
    /\ [](/\ Len(e_calls) <= e_max_attempts
          /\ LoopMeasure >= 0
          /\ \A i \in 1..Len(e_outcomes) :
                e_outcomes[i].accepted => i = Len(e_outcomes) /\ Len(e_calls) = i)
    /\ [][LoopMeasure' < LoopMeasure]_vars

\* accepted on the second attempt with a third one still allowed: no third call
C4_Witness == e_pc = "done" /\ Len(e_calls) = 2 /\ e_max_attempts = 3

C6_ExactlyTwoLinks ==
    /\ e_pc \in {"render", "qa"} => Len(e_selection.links) = 2
    /\ \A i \in 1..Len(e_outcomes) : Len(e_outcomes[i].selection.links) = 2
    /\ \A i \in 1..Len(e_calls) :
          /\ \A sel \in e_calls[i].result : Len(sel.links) = 2
          /\ (e_calls[i].fallback /\ Len(e_candidates.links) < 2) =>
                e_calls[i].result = Nothing
    /\ \A reply \in LlmReplies \ {LlmFailed} :
          Len(reply.links) # 2 =>
              make_selection(reply.hero, reply.context_item, reply.links).raised

\* the Fallback Selector was given a single link candidate and the run failed
C6_Witness ==
    /\ e_pc = "failed" /\ e_error = "selector"
    /\ Len(e_candidates.links) = 1
    /\ e_calls[Len(e_calls)].fallback

\* C7: the avoid set handed to the Selector at attempt k > 1 holds the four
\* URLs of every Selection rejected in attempts 1..k-1, whichever branch
\* rejected it, and holds the avoid set of every earlier call.
C7_AvoidSetHoldsRejected ==
    \A k \in 2..Len(e_calls) :
        /\ e_calls[k].avoid_urls # Nothing
        /\ \A av \in e_calls[k].avoid_urls :
              /\ \A j \in 1..(k - 1) :
                    /\ ~e_outcomes[j].accepted
                    /\ all_urls_in(e_outcomes[j].selection, av)
                    /\ \A earlier \in e_calls[j].avoid_urls : earlier \subseteq av
              /\ av \subseteq e_avoid_urls

\* a third call after a reviewer rejection and a reviewer error whose
\* structural fallback failed, with two different Selections rejected
C7_Witness ==
    /\ Len(e_calls) = 3
    /\ e_outcomes[1].check = "reviewer"
    /\ e_outcomes[2].check = "reviewer_error_validator"
    /\ e_outcomes[1].selection # e_outcomes[2].selection

-----------------------------------------------------------------------------
(* Properties of the renderer's link placement                             *)

\* how often sub occurs in s, overlapping occurrences included
count_of(s, sub) ==
    Cardinality({i \in 0..(Len(s) - Len(sub)) : Slice(s, i, i + Len(sub)) = sub})

\* a non-empty anchor occurs in text, letter case aside, between word boundaries
occurs_on_boundaries(text, anchor) ==
    /\ anchor # ""
    /\ \E i \in 0..(Len(text) - Len(anchor)) :
          /\ Slice(lower(text), i, i + Len(anchor)) = lower(anchor)
          /\ boundary_ok(lower(text), i, i + Len(anchor), TrailScan)

\* the paragraphs of a link's target section, in the lines the link met
log_pranges(k) ==
    LET b == section_bounds(r_log[k].lines_before, link_target(r_sel, r_sel.links[k]))
    IN  paragraph_ranges(r_log[k].lines_before, b[1], b[2])

log_used(k) ==
    used_of(r_log[k].used_before, section_key(link_target(r_sel, r_sel.links[k])))

\* the text of paragraph i of link k's target section before the insertion
log_paragraph(k, i) == paragraph_text(r_log[k].lines_before, log_pranges(k)[i + 1])

\* link k carries a paragraph hint that names a paragraph of its section
log_hint_valid(k) ==
    LET h == r_sel.links[k].place.paragraph_index
    IN  h # NoIndex /\ 0 <= h /\ h < Len(log_pranges(k))

\* C11: when a link's anchor occurs, letter case aside and on word boundaries,
\* in the paragraph its paragraph hint names, the rendered text holds the
\* string [anchor](url), with the anchor as the LinkSelection gives it,
\* exactly once.
C11_LiteralAnchorLinkedOnce ==
    r_pc = "done" =>
        \A k \in 1..Len(r_log) :
            (/\ log_hint_valid(k)
             /\ occurs_on_boundaries(log_paragraph(k, r_sel.links[k].place.paragraph_index),
                                     r_sel.links[k].anchor)) =>
                count_of(r_result, link_markup(r_sel.links[k].anchor, r_sel.links[k].url)) = 1

\* the unused paragraphs, other than the hinted one, of link k's section that
\* hold its anchor on word boundaries
log_other_hits(k) ==
    {i \in 0..(Len(log_pranges(k)) - 1) :
        /\ i # r_sel.links[k].place.paragraph_index
        /\ i \notin log_used(k)
        /\ occurs_on_boundaries(log_paragraph(k, i), r_sel.links[k].anchor)}

\* the text after link k was placed holds, in brackets and followed by the
\* link's URL, a span of paragraph i that equals the anchor, letter case aside
log_spliced_in(k, i) ==
    LET p == log_paragraph(k, i)
        a == r_sel.links[k].anchor
    IN  \E j \in 0..(Len(p) - Len(a)) :
            /\ Slice(lower(p), j, j + Len(a)) = lower(a)
            /\ contains(join("\n", r_log[k].lines_after),
                        link_markup(Slice(p, j, j + Len(a)), r_sel.links[k].url))

\* C12: when a link's anchor does not occur in its hinted paragraph but occurs,
\* on word boundaries, in another unused paragraph of the same target section,
\* the link is spliced around that occurrence in that paragraph: it is neither
\* placed in the hinted paragraph nor appended.
C12_AnchorLinkedInOtherParagraph ==
    \A k \in 1..Len(r_log) :
        (/\ log_hint_valid(k)
         /\ ~contains(lower(log_paragraph(k, r_sel.links[k].place.paragraph_index)),
                      lower(r_sel.links[k].anchor))
         /\ log_other_hits(k) # {}) =>
            /\ r_log[k].chosen \in log_other_hits(k)
            /\ r_log[k].step \in {"literal", "sentence"}
            /\ log_spliced_in(k, r_log[k].chosen)

\* C13: when both LinkSelections of a Selection carry the same URL, the
\* rendered text holds that URL exactly once, whatever the article, the hints
\* and the cascade step that placed the first link.
C13_SharedUrlOnce ==
    (/\ r_pc = "done"
     /\ r_sel.links[1].url = r_sel.links[2].url) =>
        count_of(r_result, r_sel.links[1].url) = 1

\* the spans <<start, end>> of text whose characters, emphasis marks dropped,
\* Unicode hyphens mapped to "-" and white space collapsed, equal the anchor,
\* and that lie between word boundaries
norm_spans(text, anchor) ==
    LET nm == normalized_with_map(text)
        a == normalize_anchor(anchor)
    IN  {<<nm.map[j + 1], nm.map[j + Len(a)] + 1>> :
            j \in {x \in 0..(Len(nm.out) - Len(a)) :
                      /\ a # ""
                      /\ Slice(nm.out, x, x + Len(a)) = a
                      /\ boundary_ok(lower(text), nm.map[x + 1], nm.map[x + Len(a)] + 1,
                                     TrailScan)}}

\* the unused paragraphs of link k's section that hold the anchor only after
\* that normalisation
log_norm_hits(k) ==
    {i \in 0..(Len(log_pranges(k)) - 1) :
        /\ i \notin log_used(k)
        /\ ~contains(lower(log_paragraph(k, i)), lower(r_sel.links[k].anchor))
        /\ norm_spans(log_paragraph(k, i), r_sel.links[k].anchor) # {}}

\* C14: when an anchor equals paragraph text only after emphasis marks are
\* removed and Unicode hyphens are mapped to "-" (no unused paragraph of the
\* section holds it as it stands), the renderer still matches it: the literal
\* step brackets exactly the original characters of that span, which begins
\* and ends with a character of the text, the emphasis marks around it staying
\* outside the brackets.
C14_NormalisedAnchorMatched ==
    \A k \in 1..Len(r_log) :
        (/\ log_norm_hits(k) # {}
         /\ \A i \in 0..(Len(log_pranges(k)) - 1) :
               i \in log_used(k)
                 \/ ~contains(lower(log_paragraph(k, i)), lower(r_sel.links[k].anchor))) =>
            /\ r_log[k].chosen \in log_norm_hits(k)
            /\ r_log[k].step = "literal"
            /\ \E sp \in norm_spans(log_paragraph(k, r_log[k].chosen), r_sel.links[k].anchor) :
                  /\ contains(join("\n", r_log[k].lines_after),
                              link_markup(Slice(log_paragraph(k, r_log[k].chosen), sp[1], sp[2]),
                                          r_sel.links[k].url))
                  /\ At(log_paragraph(k, r_log[k].chosen), sp[1]) \notin EmphasisChars
                  /\ At(log_paragraph(k, r_log[k].chosen), sp[2] - 1) \notin EmphasisChars

\* the first line after line i (0-based) that is not blank, "" if none
RECURSIVE first_content_after(_, _)
first_content_after(lines, i) ==
    IF i + 1 >= Len(lines) THEN ""
    ELSE IF strip(lines[i + 2]) # "" THEN lines[i + 2]
    ELSE first_content_after(lines, i + 1)

\* C15: in the rendered text the hero image block is the first content after
\* the document's first H1 line, blank lines aside, or the first line of the
\* text when the document has no H1, whatever the context item's and the
\* links' target headings are.
C15_HeroFirstAfterH1 ==
    r_pc = "done" =>
        LET hero_block == make_image_markdown(r_sel.hero.alt, r_sel.hero.url)
            h1 == {i \in 0..(Len(r_lines) - 1) : startswith(r_lines[i + 1], "# ")}
        IN  IF find_h1_index(splitlines(r_article)) >= 0
            THEN h1 # {} /\ first_content_after(r_lines, Min(h1)) = hero_block
            ELSE r_lines[1] = hero_block

\* the heading lines (0-based) of lines whose text equals, or holds, the
\* context item's section heading, letter case aside
ctx_headings(lines, heading_text, exact) ==
    {i \in 0..(Len(lines) - 1) :
        /\ is_heading(lines[i + 1])
        /\ IF exact
           THEN lower(strip(heading_group2(lines[i + 1]))) = lower(strip(heading_text))
           ELSE contains(lower(strip(heading_group2(lines[i + 1]))),
                         lower(strip(heading_text)))}

\* C16: once the context media block is inserted it stands right after the
\* first heading whose text equals the context item's section heading, letter
\* case aside; if there is none, after the first heading that holds it; if no
\* heading matches or the section heading is empty, at the end of the document.
C16_ContextAfterHeadingOrAtEnd ==
    (r_pc = "link" /\ r_log = <<>>) =>
        LET c == r_sel.context_item
            block == IF c.type = "image" THEN make_image_markdown(c.alt, c.url)
                     ELSE make_video_block(c.alt, c.url)
            given == c.place.section_heading # None /\ c.place.section_heading # ""
            exact == IF given THEN ctx_headings(r_lines, c.place.section_heading, TRUE) ELSE {}
            fuzzy == IF given THEN ctx_headings(r_lines, c.place.section_heading, FALSE) ELSE {}
        IN  IF exact # {} THEN first_content_after(r_lines, Min(exact)) = block
            ELSE IF fuzzy # {} THEN first_content_after(r_lines, Min(fuzzy)) = block
            ELSE r_lines[Len(r_lines)] = block

-----------------------------------------------------------------------------
(* Properties of the Selector and of the error paths of enrich             *)

\* the alt text of a media item meets the MediaSelection rules
alt_ok(alt) ==
    /\ 1 <= Len(alt) /\ Len(alt) <= AltMaxLength
    /\ ~startswith(lower(strip(alt)), "image of")
    /\ ~startswith(lower(strip(alt)), "picture of")

\* C17: the Fallback Selector raises when the hero bucket is empty, and for
\* every other input it returns a Selection whose alt texts are 1..125
\* characters without the banned prefixes and whose anchors are at most 60
\* characters.
C17_FallbackReturnsValidSelection ==
    \A i \in 1..Len(e_calls) :
        e_calls[i].fallback =>
            /\ e_calls[i].result = Nothing <=> Len(e_candidates.hero) = 0
            /\ \A sel \in e_calls[i].result :
                  /\ alt_ok(sel.hero.alt)
                  /\ alt_ok(sel.context_item.alt)
                  /\ \A n \in 1..Len(sel.links) : Len(sel.links[n].anchor) <= AnchorCut


\* C18: a Selector failure in any attempt becomes a rejected attempt with an
\* explanatory reason and the loop goes on; it never ends enrich with the
\* Selector's error.
C18_SelectorFailureRejectsAttempt ==
    /\ e_error # "selector"
    /\ \A i \in 1..Len(e_calls) :
          e_calls[i].result = Nothing =>
              /\ i <= Len(e_outcomes)
              /\ ~e_outcomes[i].accepted
              /\ e_outcomes[i].rejected_with # <<>>


\* the Structural Validator's verdict on the document rendered for a Selection
validator_passes(selection) ==
    validate_output(Rendered[e_article_text][selection].text, selection, EKeywords, e_require_kw) = ""

\* C19: when the Quality Reviewer raises in auto mode the run goes on: the
\* Structural Validator decides on the same document and Selection, a pass
\* accepts the attempt, a failure records it as rejected and the loop
\* continues; in ai mode a reviewer exception never accepts the attempt.
C19_ReviewerErrorHandledByMode ==
    \A i \in 1..Len(e_outcomes) :
        /\ e_outcomes[i].check = "reviewer_error_validator" =>
              /\ e_qa_mode = "auto"
              /\ e_outcomes[i].accepted <=> validator_passes(e_outcomes[i].selection)
              /\ ~e_outcomes[i].accepted => e_outcomes[i].rejected_with # <<>>
        /\ e_outcomes[i].check = "reviewer_error" =>
              /\ e_qa_mode = "ai"
              /\ ~e_outcomes[i].accepted
        /\ (/\ e_outcomes[i].check \in {"reviewer_error_validator", "reviewer_error"}
            /\ ~e_outcomes[i].accepted
            /\ i = Len(e_outcomes) /\ e_attempt = i /\ i < e_max_attempts) =>
              /\ e_error = ""
              /\ e_pc = "select"

\* the reviewer raised twice in auto mode: the validator rejected the first
\* attempt and accepted a later one
C19_Witness ==
    /\ e_qa_mode = "auto"
    /\ \E i, j \in 1..Len(e_outcomes) :
          /\ i < j
          /\ e_outcomes[i].check = "reviewer_error_validator" /\ ~e_outcomes[i].accepted
          /\ e_outcomes[j].check = "reviewer_error_validator" /\ e_outcomes[j].accepted


\* C20: a Structural Validator failure is fatal in fallback mode: it ends the
\* run on that attempt, with no further Selector call and no output written;
\* in auto mode the same failure only rejects the attempt and the next
\* attempt follows.
C20_ValidatorFailureFatalInFallbackMode ==
    /\ e_error = "validator" =>
          /\ e_qa_mode = "fallback"
          /\ e_pc = "failed"
          /\ e_outcomes # <<>>
    /\ \A i \in 1..Len(e_outcomes) :
          /\ (e_qa_mode = "fallback" /\ ~validator_passes(e_outcomes[i].selection)) =>
                /\ e_error = "validator" /\ e_pc = "failed"
                /\ i = Len(e_outcomes) /\ Len(e_calls) = i
                /\ ~e_accepted /\ e_written = <<>>
          /\ (/\ e_qa_mode = "auto"
              /\ e_outcomes[i].check = "reviewer_error_validator"
              /\ ~validator_passes(e_outcomes[i].selection)) =>
                /\ ~e_outcomes[i].accepted
                /\ e_error # "validator"
                /\ i < e_max_attempts => (Len(e_calls) > i \/ e_pc = "select")

\* fallback mode: the validator failed while attempts remained
C20_Witness ==
    /\ e_qa_mode = "fallback"
    /\ e_error = "validator"
    /\ e_attempt < e_max_attempts
    /\ e_written = <<>>

-----------------------------------------------------------------------------
(* shortlist.py: shortlist_assets, from the sorting of the scored           *)
(* candidates on.  A scored candidate is [item, score], the pair that       *)
(* media_scores and link_scores hold; the score is the value _score_asset   *)
(* (times the type weight, for a link) gave it.                             *)

TopCount == 8        \* media_scores[:8], link_scores[:8]
BucketCut == 5       \* hero_candidates[:5], context_candidates[:5]
LinksCut == 6        \* top_links[:6]

\* list.sort(key=score, reverse=True) is stable: one pair put in its place in
\* a sorted list, behind the pairs of the same score
RECURSIVE sorted_insert(_, _)
sorted_insert(sorted, pair) ==
    IF sorted = <<>> THEN <<pair>>
    ELSE IF sorted[1].score >= pair.score
    THEN <<sorted[1]>> \o sorted_insert(Tail(sorted), pair)
    ELSE <<pair>> \o sorted

RECURSIVE sort_by_score(_)
sort_by_score(pairs) ==
    IF pairs = <<>> THEN <<>>
    ELSE sorted_insert(sort_by_score(SubSeq(pairs, 1, Len(pairs) - 1)), pairs[Len(pairs)])

\* [m for m, s in scores[:n]]
top_items(scores, n) == [i \in 1..Len(LSlice(scores, 0, n)) |-> scores[i].item]

is_image(m) == m.type = "image"

\* the hero candidates taken without regard to their type
hero_candidates_any(top_media) == top_media

\* [m for m in top_media if m["type"] == "image"] or top_media
hero_candidates(top_media) ==
    IF SelectSeq(top_media, is_image) # <<>> THEN SelectSeq(top_media, is_image) ELSE top_media

\* shortlist.py:161, 180-194
shortlist_assets(media_scores, link_scores) ==
    LET top_media == top_items(sort_by_score(media_scores), TopCount)
        top_links == top_items(sort_by_score(link_scores), TopCount)
    IN  [hero |-> LSlice(hero_candidates(top_media), 0, BucketCut),
         context |-> LSlice(top_media, 0, BucketCut),
         links |-> LSlice(top_links, 0, LinksCut)]

-----------------------------------------------------------------------------
(* The pure functions of the pipeline, each called once on inputs drawn    *)
(* from bounded sets                                                       *)

MaxRating == 10          \* ratings range over None, 0..MaxRating

\* QAResult (ai/qa_ai.py:9-13) values handed to the pass test of enrich
PassedArgs ==
    { [accepted |-> a, rating |-> r, reasons |-> <<>>, threshold |-> t] :
        a \in {Nothing, Some(TRUE), Some(FALSE)},
        r \in {Nothing} \cup {Some(n) : n \in 0..MaxRating},
        t \in {QAThreshold - 2, QAThreshold} }

\* documents holding any subset of the four selected URLs
ValidateDocs ==
    { "# T\n" \o (IF h THEN "![A](h)\n" ELSE "") \o (IF c THEN "![B](c)\n" ELSE "")
             \o (IF a THEN "[x](u/bike) " ELSE "") \o (IF b THEN "[y](v)" ELSE "") :
        h \in BOOLEAN, c \in BOOLEAN, a \in BOOLEAN, b \in BOOLEAN }

ValidateAnchors == {"bike lanes", "city guide", "Click Here now", "  "}

ValidateKeywords == {<<" Bike">>, <<>>}

\* validate_output(markdown, selection, keywords) and ANCHOR_REQUIRE_KEYWORDS
ValidateArgs ==
    { [markdown |-> d,
       selection |-> RCase(d, None, RLink(LinkUrl1, a1, None, NoIndex), RLink(LinkUrl2, a2, None, NoIndex))[2],
       keywords |-> k, require_kw |-> f] :
        d \in ValidateDocs, a1 \in ValidateAnchors, a2 \in ValidateAnchors,
        k \in ValidateKeywords, f \in BOOLEAN }

MaxMedia == 10           \* media.db holds 0..MaxMedia images and videos
MaxLinks == 9            \* links.db holds 0..MaxLinks links

\* how the scores of the candidates vary along the input order, and how many
\* of the media are images
ScorePatterns == {<<0, 1>>, <<1, 4>>, <<3, 4>>, <<2, 3>>}
ImageCounts == {0, 1, 4, MaxMedia}

\* n scored media in the order of media_scores: the images, then the videos
ScoredMedia(n, sp, images) ==
    [i \in 1..n |-> [item |-> [id |-> i, type |-> IF i <= images THEN "image" ELSE "video"],
                     score |-> (i * sp[1]) % sp[2]]]

ScoredLinks(n, sp) ==
    [i \in 1..n |-> [item |-> [id |-> i, type |-> "guide"], score |-> (i * sp[1]) % sp[2]]]

ShortlistArgs ==
    { [media_scores |-> ScoredMedia(n, sp, tp), link_scores |-> ScoredLinks(m, sp)] :
        n \in 0..MaxMedia, m \in {0, 1, LinksCut, MaxLinks}, sp \in ScorePatterns, tp \in ImageCounts }

CallCases ==
    {<<"passed", a>> : a \in PassedArgs} \cup {<<"validate_output", a>> : a \in ValidateArgs} \cup {<<"shortlist_assets", a>> : a \in ShortlistArgs}

CallInit ==
    /\ RenderOff
    /\ EnrichOff
    /\ FilterOff
    /\ p_pc = "call"
    /\ \E c \in CallCases : p_fn = c[1] /\ p_args = c[2]
    /\ p_result = <<>>

\* pipeline.py:95
CallPassed ==
    /\ p_pc = "call"
    /\ p_fn = "passed"
    /\ p_result' = [raised |-> FALSE, value |-> passed(p_args)]
    /\ p_pc' = "returned"
    /\ UNCHANGED <<p_fn, p_args, render_vars, enrich_vars, filter_vars>>

\* qa.py:26-40
CallValidate ==
    /\ p_pc = "call"
    /\ p_fn = "validate_output"
    /\ \E msg \in {validate_output(p_args.markdown, p_args.selection, p_args.keywords, p_args.require_kw)} :
           p_result' = [raised |-> msg # "", message |-> msg]
    /\ p_pc' = "returned"
    /\ UNCHANGED <<p_fn, p_args, render_vars, enrich_vars, filter_vars>>

\* shortlist.py:143-194
CallShortlist ==
    /\ p_pc = "call"
    /\ p_fn = "shortlist_assets"
    /\ p_result' = [raised |-> FALSE, value |-> shortlist_assets(p_args.media_scores, p_args.link_scores)]
    /\ p_pc' = "returned"
    /\ UNCHANGED <<p_fn, p_args, render_vars, enrich_vars, filter_vars>>

CallNext == CallPassed \/ CallValidate \/ CallShortlist

SpecCalls == CallInit /\ [][CallNext]_vars

returned(fn) == p_pc = "returned" /\ p_fn = fn

\* C21: a QAResult passes if and only if accepted is explicitly true, or a
\* rating is present and at least the threshold; accepted = false with a
\* rating at the threshold passes, a result with neither field does not.
C21_PassedIffFlagOrRating ==
    returned("passed") =>
        /\ p_result.value <=>
              \/ p_args.accepted = Some(TRUE)
              \/ p_args.rating # Nothing /\ \A n \in p_args.rating : n >= p_args.threshold
        /\ (p_args.accepted = Some(FALSE) /\ p_args.rating = Some(p_args.threshold)) => p_result.value
        /\ (p_args.accepted = Nothing /\ p_args.rating = Nothing) => ~p_result.value

\* accepted is false, the rating reaches the threshold, and the result passes
C21_Witness ==
    /\ returned("passed")
    /\ p_args.accepted = Some(FALSE)
    /\ p_args.rating = Some(p_args.threshold)
    /\ p_result.value


\* the rules of the Structural Validator, in the order of the claim
hero_url_absent(a) == count_of(a.markdown, a.selection.hero.url) = 0
context_url_absent(a) == count_of(a.markdown, a.selection.context_item.url) = 0
link_url_absent(a) == \E i \in 1..Len(a.selection.links) : count_of(a.markdown, a.selection.links[i].url) = 0
anchor_invalid(a) ==
    \E i \in 1..Len(a.selection.links) :
        \/ strip(a.selection.links[i].anchor) = ""
        \/ count_of(lower(a.selection.links[i].anchor), "click here") > 0
        \/ /\ a.require_kw
           /\ \A k \in 1..Len(a.keywords) :
                 count_of(lower(a.selection.links[i].anchor), lower(strip(a.keywords[k]))) = 0

\* C22: validate_output raises if and only if one of its rules is violated,
\* the error is that of the first violated rule (hero URL, context URL, link
\* URLs, anchors), and an output holding all four URLs with valid anchors
\* passes.
C22_ValidatorRulesInOrder ==
    returned("validate_output") =>
        /\ p_result.raised <=>
              (hero_url_absent(p_args) \/ context_url_absent(p_args) \/ link_url_absent(p_args) \/ anchor_invalid(p_args))
        /\ p_result.message =
              IF hero_url_absent(p_args) THEN "Hero image not found in output"
              ELSE IF context_url_absent(p_args) THEN "Context media not found in output"
              ELSE IF link_url_absent(p_args) THEN "A selected link URL is missing from output"
              ELSE IF anchor_invalid(p_args) THEN "Anchor text must include provided keywords and avoid 'click here'"
              ELSE ""

\* the context URL and a link URL are missing and an anchor is invalid: the
\* context error is the one reported
C22_Witness ==
    /\ returned("validate_output")
    /\ ~hero_url_absent(p_args) /\ context_url_absent(p_args)
    /\ link_url_absent(p_args) /\ anchor_invalid(p_args)
    /\ p_result.message = "Context media not found in output"


\* both links were placed in a paragraph of one and the same section
log_same_section ==
    /\ Len(r_log) = 2
    /\ section_key(link_target(r_sel, r_sel.links[1])) = section_key(link_target(r_sel, r_sel.links[2]))
    /\ r_log[1].chosen >= 0
    /\ r_log[2].chosen >= 0

\* C23: two links with different URLs that target the same section, when the
\* section has at least two paragraphs, are never placed in the same
\* paragraph: the index recorded as used after the first link is the index of
\* the paragraph it was placed in, and the second link skips it.
C23_LinksInDistinctParagraphs ==
    (/\ log_same_section
     /\ r_sel.links[1].url # r_sel.links[2].url
     /\ Len(log_pranges(1)) >= 2) =>
        /\ r_log[1].chosen \in log_used(2)
        /\ r_log[1].chosen # r_log[2].chosen


\* the unused paragraphs in front of the hinted one that hold link k's anchor
\* on word boundaries
log_earlier_hits(k) ==
    {i \in log_other_hits(k) : i < r_sel.links[k].place.paragraph_index}

\* C24: when a link's hinted paragraph is unused and holds the anchor
\* literally, the link is placed in the hinted paragraph even if an earlier
\* unused paragraph of the section holds the anchor too; the scan of the
\* section decides only when the hinted paragraph does not hold the anchor.
C24_HintedParagraphPreferred ==
    \A k \in 1..Len(r_log) :
        (/\ log_hint_valid(k)
         /\ r_sel.links[k].place.paragraph_index \notin log_used(k)
         /\ occurs_on_boundaries(log_paragraph(k, r_sel.links[k].place.paragraph_index),
                                 r_sel.links[k].anchor)) =>
            r_log[k].chosen = r_sel.links[k].place.paragraph_index


\* the bounds of link k's target section in the lines the link met
log_bounds(k) == section_bounds(r_log[k].lines_before, link_target(r_sel, r_sel.links[k]))

\* the paragraphs of link k's section that hold line n (0-based)
log_covering(k, n) ==
    {i \in 1..Len(log_pranges(k)) : log_pranges(k)[i][1] <= n /\ n < log_pranges(k)[i][2]}

\* C25: the paragraph ranges of a section are disjoint and in order, they hold
\* every non-blank, non-media line between the section bounds exactly once,
\* and each list item line starts a paragraph of its own, also when it
\* directly follows a prose line.
C25_ParagraphsCoverSection ==
    \A k \in 1..Len(r_log) :
        log_bounds(k)[1] >= 0 =>
            /\ \A i \in 1..(Len(log_pranges(k)) - 1) : log_pranges(k)[i][2] <= log_pranges(k)[i + 1][1]
            /\ \A n \in log_bounds(k)[1]..(log_bounds(k)[2] - 1) :
                  /\ (/\ strip(r_log[k].lines_before[n + 1]) # ""
                      /\ ~is_media_line(r_log[k].lines_before[n + 1])) =>
                        Cardinality(log_covering(k, n)) = 1
                  /\ is_list_item(r_log[k].lines_before[n + 1]) =>
                        \E i \in 1..Len(log_pranges(k)) : log_pranges(k)[i][1] = n


\* the heading lines of a list of lines, in order
heading_lines(lines) == SelectSeq(lines, is_heading)

\* C26: rendering never changes a heading line of the original document:
\* the heading lines of the output are the heading lines of the input, also
\* when a link's target section is empty and followed by another heading and
\* when the target heading is not found and the last line is a heading.
C26_HeadingLinesUnchanged ==
    r_pc = "done" => heading_lines(splitlines(r_result)) = heading_lines(splitlines(r_article))


\* position j of text opens a link inside the bracketed text of another one
in_link_text(text, j) ==
    \E i \in 0..(j - 1) :
        /\ At(text, i) = "["
        /\ \A m \in (i + 1)..(j - 1) : At(text, m) # "]"

\* position j of text opens a link inside the URL part of another one
in_link_url(text, j) ==
    \E i \in 0..(j - 2) :
        /\ Slice(text, i, i + 2) = "]("
        /\ \A m \in (i + 2)..(j - 1) : At(text, m) # ")"

\* C27: a link is never placed inside the text or the URL part of a link or
\* image already in the paragraph: in the rendered text no [..](..) span lies
\* within another one.
C27_NoNestedLinks ==
    r_pc = "done" =>
        \A j \in 0..(Len(r_result) - 1) :
            At(r_result, j) = "[" => ~in_link_text(r_result, j) /\ ~in_link_url(r_result, j)


\* the words of a list of lines, in order
words_of(lines) == split_words(join(" ", lines))

\* text `after` is text `before` with one link to url added: brackets and URL
\* put around words that were there, or the whole [anchor](url) put in
one_link_added(before, after, anchor, url) ==
    \E i \in 0..(Len(after) - 1) : \E j \in (i + 1)..(Len(after) - 1) :
        /\ At(after, i) = "["
        /\ Slice(after, j, j + Len(url) + 3) = "](" \o url \o ")"
        /\ \/ split_words(Slice(after, 0, i) \o Slice(after, i + 1, j) \o From(after, j + Len(url) + 3)) = split_words(before)
           \/ /\ Slice(after, i + 1, j) = anchor
              /\ split_words(Slice(after, 0, i) \o From(after, j + Len(url) + 3)) = split_words(before)

\* how many leading lines two lists of lines share
same_head(a, b) ==
    Max({n \in 0..Min({Len(a), Len(b)}) : \A m \in 1..n : a[m] = b[m]})

\* how many trailing lines two lists of lines share, the first h lines aside
same_tail(a, b, h) ==
    Max({n \in 0..(Min({Len(a), Len(b)}) - h) : \A m \in 0..(n - 1) : a[Len(a) - m] = b[Len(b) - m]})

\* the lines of a list between its first h and its last t lines
inner_lines(a, h, t) == SubSeq(a, h + 1, Len(a) - t)

\* lines `after` are lines `before` with one link added in the lines that
\* differ, all other lines being the same
lines_one_link_added(before, after, h, anchor, url) ==
    one_link_added(join(" ", inner_lines(before, h, same_tail(before, after, h))), join(" ", inner_lines(after, h, same_tail(before, after, h))), anchor, url)

\* the lines of a list that are neither blank nor in a given set
kept_lines(lines, dropped) == SelectSeq(lines, LAMBDA l : l # "" /\ l \notin dropped)

\* the lines the hero and context steps added
media_blocks ==
    { make_image_markdown(r_sel.hero.alt, r_sel.hero.url),
      make_image_markdown(r_sel.context_item.alt, r_sel.context_item.url),
      make_video_block(r_sel.context_item.alt, r_sel.context_item.url) }

\* the [anchor](url) lines the pass after the cascade added: those of the
\* links whose URL the text did not hold when the cascade was over
late_links ==
    { link_markup(r_sel.links[k].anchor, r_sel.links[k].url) : k \in {n \in 1..Len(r_sel.links) : ~contains(join("\n", r_log[Len(r_log)].lines_after), r_sel.links[n].url)} }

rank_of(scores, i) ==
    Cardinality({j \in 1..Len(scores) :
        \/ scores[j].score > scores[i].score
        \/ scores[j].score = scores[i].score /\ j < i})

\* the n best candidates: positions in the input, by rank
best(scores, n) ==
    [k \in 1..Min({n, Len(scores)}) |-> CHOOSE i \in 1..Len(scores) : rank_of(scores, i) = k - 1]

\* the items at a list of input positions, cut to at most n
items_at(scores, positions, n) ==
    [k \in 1..Min({n, Len(positions)}) |-> scores[positions[k]].item]

\* the image-typed ones among the 8 best media: positions in the input, by rank
best_images(scores) ==
    SelectSeq(best(scores, 8), LAMBDA i : scores[i].item.type = "image")

\* C29: shortlist_assets returns buckets made of supplied candidates only,
\* ranked by descending score: the hero bucket is the image-typed items of
\* the 8 top-scored media (all 8 if none is an image) cut to 5, the context
\* bucket the 8 top-scored media cut to 5, the links bucket the 6 top-scored
\* links; a bucket is empty only when no candidate of its kind was supplied.
C29_ShortlistBuckets ==
    returned("shortlist_assets") =>
        /\ p_result.value.context = items_at(p_args.media_scores, best(p_args.media_scores, 8), 5)
        /\ p_result.value.links = items_at(p_args.link_scores, best(p_args.link_scores, 6), 6)
        /\ p_result.value.hero =
              IF best_images(p_args.media_scores) # <<>>
              THEN items_at(p_args.media_scores, best_images(p_args.media_scores), 5)
              ELSE items_at(p_args.media_scores, best(p_args.media_scores, 8), 5)
        /\ \A n \in 1..Len(p_result.value.hero) : \E i \in 1..Len(p_args.media_scores) : p_result.value.hero[n] = p_args.media_scores[i].item
        /\ \A n \in 1..Len(p_result.value.context) : \E i \in 1..Len(p_args.media_scores) : p_result.value.context[n] = p_args.media_scores[i].item
        /\ \A n \in 1..Len(p_result.value.links) : \E i \in 1..Len(p_args.link_scores) : p_result.value.links[n] = p_args.link_scores[i].item
        /\ p_result.value.hero = <<>> <=> p_args.media_scores = <<>>
        /\ p_result.value.context = <<>> <=> p_args.media_scores = <<>>
        /\ p_result.value.links = <<>> <=> p_args.link_scores = <<>>

\* more than 8 media were supplied, an image stands among the 8 best and a
\* better-scored video is left out of the hero bucket
C29_Witness ==
    /\ returned("shortlist_assets")
    /\ Len(p_args.media_scores) > 8
    /\ Len(p_args.link_scores) > 6
    /\ Len(p_result.value.context) = 5
    /\ p_result.value.hero # p_result.value.context
    /\ \E n \in 1..Len(p_result.value.context) : p_result.value.context[n].type = "video"
    /\ \A n \in 1..Len(p_result.value.hero) : p_result.value.hero[n].type = "image"


-----------------------------------------------------------------------------
(* asset_validation.py: filter_candidates_by_availability                   *)
(*                                                                         *)
(* Every candidate of every bucket gets one probe task; all tasks are      *)
(* created before the first await and run concurrently on one httpx        *)
(* client.  A probe sends a HEAD and a GET request and waits for both.     *)
(* The client opens at most MaxConnections connections at a time; a        *)
(* request that finds none free waits for one, and gives up with a         *)
(* PoolTimeout after the pool timeout.  The two requests of a probe are    *)
(* queued one after the other and are taken together here: a probe is      *)
(* queued, then holds ProbeRequests connections, then is done.             *)

MaxConnections == 20     \* httpx.Limits(max_connections=20)
ProbeRequests == 2       \* client.head and client.get
MaxProbeLinks == 2       \* the links bucket holds 0..MaxProbeLinks candidates

ImageExts == {".jpg", ".jpeg", ".png", ".gif", ".webp", ".svg"}
VideoExts == {".mp4", ".webm", ".mov", ".m4v"}

\* the URLs of the model have no scheme, query or fragment: the path is the URL
guess_type_from_url(url) ==
    IF \E ext \in ImageExts : endswith(lower(url), ext) THEN "image"
    ELSE IF \E ext \in VideoExts : endswith(lower(url), ext) THEN "video"
    ELSE "resource"

acceptable_types(type_hint) ==
    CASE type_hint = "image" -> {"image/", "application/octet-stream"}
      [] type_hint = "video" -> {"video/", "text/html", "application/octet-stream"}
      [] type_hint = "resource" -> {"text/html", "application/pdf", "application/json"}
      [] OTHER -> {"text/html"}

\* what a request ends with: a response, or an exception
Response(status, ctype) == [kind |-> "response", status |-> status, ctype |-> ctype]
ConnectError == [kind |-> "exception", status |-> 0, ctype |-> "ConnectError"]
ReadTimeout == [kind |-> "exception", status |-> 0, ctype |-> "ReadTimeout"]
PoolTimeout == [kind |-> "exception", status |-> 0, ctype |-> "PoolTimeout"]

\* "Evaluate HEAD" / "Evaluate GET"
evaluate(resp, type_hint, guessed) ==
    /\ resp.kind = "response"
    /\ IF 200 <= resp.status /\ resp.status < 300
       THEN \E t \in acceptable_types(type_hint) : startswith(lower(resp.ctype), t)
       ELSE resp.status \in {401, 403} /\ guessed = type_hint

is_url_available(url, type_hint, head_resp, get_resp) ==
    IF url = "" THEN FALSE
    ELSE \/ evaluate(head_resp, type_hint, guess_type_from_url(url))
         \/ evaluate(get_resp, type_hint, guess_type_from_url(url))

\* hero_tasks, ctx_tasks, link_tasks: one task per candidate, in this order
bucket_tasks(candidates, bucket) ==
    [i \in 1..Len(candidates[bucket]) |->
        [bucket |-> bucket, index |-> i, url |-> candidates[bucket][i].url,
         type_hint |-> CASE bucket = "hero" -> "image"
                         [] bucket = "context" -> candidates[bucket][i].type
                         [] OTHER -> "resource",
         state |-> IF candidates[bucket][i].url = "" THEN "done" ELSE "queued",
         ok |-> FALSE]]

create_tasks(candidates) ==
    bucket_tasks(candidates, "hero") \o bucket_tasks(candidates, "context") \o bucket_tasks(candidates, "links")

connections(probes) ==
    ProbeRequests * Cardinality({i \in 1..Len(probes) : probes[i].state = "active"})

\* the waiting requests get the free connections, first come first served
RECURSIVE assign_connections(_, _)
assign_connections(probes, i) ==
    IF i > Len(probes) THEN probes
    ELSE IF probes[i].state = "queued" /\ connections(probes) + ProbeRequests <= MaxConnections
    THEN assign_connections([probes EXCEPT ![i].state = "active"], i + 1)
    ELSE assign_connections(probes, i + 1)

\* avail_hero, avail_context, avail_links
avail(candidates, probes, bucket) ==
    LET results == SelectSeq(probes, LAMBDA t : t.bucket = bucket)
        keep == {i \in 1..Len(candidates[bucket]) : results[i].ok}
        F[i \in 0..Len(candidates[bucket])] ==
            IF i = 0 THEN <<>>
            ELSE IF i \in keep THEN Append(F[i - 1], candidates[bucket][i]) ELSE F[i - 1]
    IN F[Len(candidates[bucket])]

or_else(a, b) == IF a # <<>> THEN a ELSE b

\* ---- the inputs
MediaItems ==
    << [id |-> 1, type |-> "image", url |-> "m1.png"], [id |-> 2, type |-> "image", url |-> "m2.jpg"],
       [id |-> 3, type |-> "video", url |-> "m3.mp4"], [id |-> 4, type |-> "image", url |-> "m4.png"],
       [id |-> 5, type |-> "image", url |-> "m5"], [id |-> 6, type |-> "image", url |-> "m6.PNG"] >>

LinkItems ==
    << [id |-> 1, type |-> "guide", url |-> "l1"], [id |-> 2, type |-> "paper", url |-> "l2.pdf"],
       [id |-> 3, type |-> "guide", url |-> ""] >>

ProbeUrls == {MediaItems[i].url : i \in 1..Len(MediaItems)} \cup {LinkItems[i].url : i \in 1..Len(LinkItems)}

\* hero: image candidates; context: the best media; links: the best links
FilterBuckets(nh, nc, nl) ==
    [hero |-> SubSeq(SelectSeq(MediaItems, LAMBDA m : m.type = "image"), 1, nh),
     context |-> SubSeq(MediaItems, 1, nc),
     links |-> SubSeq(LinkItems, 1, nl)]

\* what the servers do
ServersUp ==
    [u \in ProbeUrls |->
        CASE u \in {"m1.png", "m2.jpg", "m4.png", "m5", "m6.PNG"} -> Response(200, "image/png")
          [] u = "m3.mp4" -> Response(206, "Video/MP4")
          [] u = "l2.pdf" -> Response(200, "application/pdf")
          [] OTHER -> Response(200, "text/html; charset=utf-8")]

ServersMediaSlow ==
    [u \in ProbeUrls |->
        CASE u = "m1.png" -> Response(200, "image/png")
          [] u = "l1" -> Response(200, "text/html")
          [] u = "l2.pdf" -> Response(404, "text/html")
          [] OTHER -> ReadTimeout]

ServersMixed ==
    [u \in ProbeUrls |->
        CASE u = "m1.png" -> Response(403, "text/html")
          [] u = "m2.jpg" -> ConnectError
          [] u = "m3.mp4" -> Response(200, "text/html")
          [] u = "m4.png" -> Response(200, "application/json")
          [] u = "m5" -> Response(401, "")
          [] u = "m6.PNG" -> Response(200, "application/octet-stream")
          [] u = "l1" -> ReadTimeout
          [] OTHER -> Response(200, "application/json")]

ServersDown == [u \in ProbeUrls |-> ConnectError]

FilterCases ==
    { <<FilterBuckets(nh, nc, nl), r>> :
        nh \in {0, 1, BucketCut}, nc \in {0, BucketCut}, nl \in 0..MaxProbeLinks,
        r \in {ServersUp, ServersMediaSlow, ServersMixed, ServersDown} }

FilterInit ==
    /\ RenderOff
    /\ EnrichOff
    /\ CallOff
    /\ f_pc = "tasks"
    /\ \E c \in FilterCases : f_candidates = c[1] /\ f_reply = c[2]
    /\ f_probe = <<>>
    /\ f_out = <<>>

\* asset_validation.py:87-89: the tasks are created and start to run
FilterCreateTasks ==
    /\ f_pc = "tasks"
    /\ f_probe' = assign_connections(create_tasks(f_candidates), 1)
    /\ f_pc' = "probing"
    /\ UNCHANGED <<f_candidates, f_reply, f_out, render_vars, enrich_vars, call_vars>>

\* asset_validation.py:53-76: both requests of a probe have ended (a
\* response, an error or a timeout of its own); its connections go to the
\* requests that wait
FilterProbeEnds(i) ==
    /\ f_pc = "probing"
    /\ f_probe[i].state = "active"
    /\ \E ok \in {is_url_available(f_probe[i].url, f_probe[i].type_hint, f_reply[f_probe[i].url], f_reply[f_probe[i].url])} :
           f_probe' = assign_connections([f_probe EXCEPT ![i].state = "done", ![i].ok = ok], 1)
    /\ UNCHANGED <<f_pc, f_candidates, f_reply, f_out, render_vars, enrich_vars, call_vars>>

\* asset_validation.py:84-85, 53-55: the requests of a probe waited for a
\* connection for the pool timeout and got none
FilterPoolTimeout(i) ==
    /\ f_pc = "probing"
    /\ f_probe[i].state = "queued"
    /\ \E ok \in {is_url_available(f_probe[i].url, f_probe[i].type_hint, PoolTimeout, PoolTimeout)} :
           f_probe' = [f_probe EXCEPT ![i].state = "done", ![i].ok = ok]
    /\ UNCHANGED <<f_pc, f_candidates, f_reply, f_out, render_vars, enrich_vars, call_vars>>

\* asset_validation.py:91-111: every gather has returned
FilterReturn ==
    /\ f_pc = "probing"
    /\ \A i \in 1..Len(f_probe) : f_probe[i].state = "done"
    /\ f_out' = [b \in {"hero", "context", "links"} |-> or_else(avail(f_candidates, f_probe, b), f_candidates[b])]
    /\ f_pc' = "done"
    /\ UNCHANGED <<f_candidates, f_reply, f_probe, render_vars, enrich_vars, call_vars>>

FilterNext ==
    \/ FilterCreateTasks
    \/ \E i \in 1..(2 * BucketCut + MaxProbeLinks) : i <= Len(f_probe) /\ FilterProbeEnds(i)
    \/ \E i \in 1..(2 * BucketCut + MaxProbeLinks) : i <= Len(f_probe) /\ FilterPoolTimeout(i)
    \/ FilterReturn

SpecFilter == FilterInit /\ [][FilterNext]_vars

\* what the probe of a candidate answers when its requests are served
served(c, type_hint) == is_url_available(c.url, type_hint, f_reply[c.url], f_reply[c.url])

hint_of(bucket, c) ==
    CASE bucket = "hero" -> "image" [] bucket = "context" -> c.type [] OTHER -> "resource"

available_in(bucket) == SelectSeq(f_candidates[bucket], LAMBDA c : served(c, hint_of(bucket, c)))

\* C30: whatever the order in which the probes end, each returned bucket
\* holds the available candidates of the bucket in their rank order, or the
\* whole bucket when none is available; the end of one probe never changes
\* what is returned for another candidate.
C30_FilterReturnsAvailableInOrder ==
    f_pc = "done" =>
        \A b \in {"hero", "context", "links"} :
            f_out[b] = or_else(available_in(b), f_candidates[b])

=============================================================================
